---- MODULE Spec2Model ----
(***************************************************************************)
(* A model of mcp-remote's client-side OAuth coordination:                 *)
(*   - the background token refresh (TokenRefreshManager.refreshIfNeeded   *)
(*     and performRefresh) run by several processes over the shared        *)
(*     credential files and the refresh lock          (SpecRefresh),       *)
(*   - the scan loop of one manager: start, stop, scheduleNextScan,        *)
(*     the timer callback and runScan                 (SpecScan),          *)
(*   - the interactive authorization coordinated through the lockfile      *)
(*     (checkLockfile / createLockfile / deleteLockfile, authInitializer)  *)
(*                                                    (SpecAuth).          *)
(* Time is a global clock `now` (Date.now()); one unit stands for one      *)
(* minute in the refresh parts and for one second in the auth part.        *)
(***************************************************************************)
EXTENDS Integers, FiniteSets, Sequences, TLC

\* ------------------------------------------------------------------------
\* Bounds of the model
\* ------------------------------------------------------------------------

\* the clock stops advancing here
MaxTime == 4

\* scan chains (pending timers and scans in flight) of one manager
MaxChains == 3

\* Processes sharing one configuration directory.
Procs == {"p1", "p2"}

\* ServerKeys (hashes of server URLs) with files in the directory.
Keys == {"s1"}

\* JavaScript's undefined, for numeric fields
undefined == 0 - 1

\* ------------------------------------------------------------------------
\* TokenRefreshManager options (constructor), in minutes
\* ------------------------------------------------------------------------

intervalMs == 1
leadTimeMs == 1
lockTtlMs == 2
failureBackoffMs == 2

\* ------------------------------------------------------------------------
\* State
\* ------------------------------------------------------------------------

VARIABLES
  now,            \* Date.now()
  \* --- credential files, per ServerKey
  tokensFile,     \* {hash}_tokens.json: NoFile or [access_token, refresh_token]
  tokenState,     \* {hash}_token_state.json: NoFile or [expiresAt, lastRefreshAttempt, lastRefreshError]
  registration,   \* {hash}_server.json is present
  refreshLock,    \* {hash}_refresh_lock.json: NoFile or [pid, expiresAt]
  \* --- one TokenRefreshManager per process, inside refreshIfNeeded
  alive,          \* the process has not crashed
  pc,             \* position inside refreshIfNeeded, or how the last call ended
  key,            \* serverUrlHash of the call
  refreshToken,   \* tokens.refresh_token, read before the lock is taken
  newTokens,      \* result of refreshAuthorization
  failureBackoff, \* this.failureBackoff: key -> deadline (undefined: no entry)
  \* --- the scan loop of one TokenRefreshManager
  enabled,        \* this.enabled
  stopped,        \* this.stopped
  timer,          \* this.timer: "null", or the handle of a "pending" or "fired" timeout
  orphanTimers,   \* pending timeouts whose handle this.timer no longer holds
  scans,          \* runScan calls in flight: [at, failed] -> how many
  \* --- the interactive authorization, one client or proxy per process
  lockfile,       \* {hash}_lock.json: NoFile, Unparseable or [pid, port, timestamp]
  apc,            \* position of the process inside authInitializer and the flow
  seen,           \* what the process's checkLockfile returned (NoFile: null)
  listener,       \* the process's callback server is listening on its port
  settleAt,       \* when the process began the settle delay (undefined: never)
  \* --- one call of a helper function
  args,           \* the arguments of the call
  result,         \* what the call returned (NoResult: not called yet)
  \* --- one metadata discovery
  call,           \* the discovery called: [fn, resource, header]
  dpc,            \* position inside the discovery
  prm,            \* protected-resource metadata obtained so far (NoMeta: none)
  idx,            \* index of the loop over issuers or well-known URLs
  requests,       \* fetch calls issued, in order: [stage, host, ok]
  bundle,         \* what the discovery returned (NoResult: not returned)
  \* --- one connectToRemoteServer call with its recursive retries
  conn,           \* the call: [insecure, strategy, env] (env: the variable before the call)
  env,            \* process.env.NODE_TLS_REJECT_UNAUTHORIZED (Unset: not set)
  cpc,            \* position inside the call
  saved,          \* per call frame, innermost last: the value to restore on leaving
  reasons,        \* recursionReasons: failure reasons already retried
  attempts,       \* connection attempts made
  transport,      \* transport variant of the current attempt
  response,       \* the server's response to the last attempt
  skipBrowserAuth,\* what authInitializer returned for the current challenge
  authLog,        \* steps taken for the current challenge, in order
  authRequests,   \* requests made while finishing authorizations, in order
  tokensJson,     \* {hash}_tokens.json of the connecting provider (NoFile: absent)
  outcome,        \* how the call ended (NoResult: not ended)
  \* --- the files of the config directories and the tasks that use them
  versioned,      \* process.env.MCP_REMOTE_VERSIONED_CONFIG === '1'
  disk,           \* per directory and file: its content (NoFile: absent)
  migrationRun,   \* the module's migrationRun flag
  migrateCalls,   \* calls of migrateFromVersionedDirs so far
  task,           \* per task of the process: the operation and its position
  others,         \* files created by other processes so far
  \* --- one provider and the records of its server
  provider,       \* [staticScope, staticOAuthClientInfo, scopes (this._scopes)]
  records,        \* per file of the server: its content (NoFile: absent)
  lastCall,       \* the provider method called last, with its argument
  calls,          \* calls made so far
  \* --- one run of the client or of the proxy
  program,        \* "client" (runClient) or "proxy" (runProxy)
  rpc,            \* position in the run
  server,         \* the callback server: "null", "listening" or "closed"
  onclose,        \* transport.onclose is set
  handlers,       \* setupSignalHandlers(cleanup) was called
  sent,      \* outcomes of the client's requests, in order
  exit,           \* the exit: [code, path] (NoResult: running)
  \* --- the PKCE verifier of the server, one provider per process
  verifierFile,   \* {hash}_code_verifier.txt: its content (NoFile: absent)
  fpc,            \* position of the process inside an authorization flow
  flows,          \* authorization flows the process has started
  exchanges       \* code exchanges made: [flow, verifier]

refreshVars == <<now, tokensFile, tokenState, registration, refreshLock, alive, pc, key,
                 refreshToken, newTokens, failureBackoff>>

scanVars == <<enabled, stopped, timer, orphanTimers, scans>>

authVars == <<lockfile, apc, seen, listener, settleAt>>

\* the refresh state the authorization leaves alone
refreshOnly == <<tokenState, registration, refreshLock, pc, key, refreshToken, newTokens,
                 failureBackoff>>

calcVars == <<args, result>>

discVars == <<call, dpc, prm, idx, requests, bundle>>

connVars == <<conn, env, cpc, saved, reasons, attempts, transport, response,
              skipBrowserAuth, authLog, authRequests, tokensJson, outcome>>

storeVars == <<versioned, disk, migrationRun, migrateCalls, task, others>>

provVars == <<provider, records, lastCall, calls>>

runVars == <<program, rpc, server, onclose, handlers, sent, exit>>

\* the parts specified last
pkceVars == <<verifierFile, fpc, flows, exchanges>>

moreVars == <<storeVars, provVars, runVars, pkceVars>>

\* the state of the parts specified further down
restVars == <<calcVars, discVars, connVars, moreVars>>

\* everything but one part
notCalc == <<refreshVars, scanVars, authVars, discVars, connVars, moreVars>>
notDisc == <<refreshVars, scanVars, authVars, calcVars, connVars, moreVars>>
notConn == <<refreshVars, scanVars, authVars, calcVars, discVars, moreVars>>
notStore == <<refreshVars, scanVars, authVars, calcVars, discVars, connVars, provVars, runVars,
              pkceVars>>
notProv == <<refreshVars, scanVars, authVars, calcVars, discVars, connVars, storeVars, runVars,
             pkceVars>>
notRun == <<refreshVars, scanVars, authVars, calcVars, discVars, connVars, storeVars, provVars,
            pkceVars>>
notPkce == <<refreshVars, scanVars, authVars, calcVars, discVars, connVars, storeVars, provVars,
             runVars>>

vars == <<refreshVars, scanVars, authVars, restVars>>

NoFile == [absent |-> TRUE]

\* ------------------------------------------------------------------------
\* Credential store records
\* ------------------------------------------------------------------------

Tokens(at, rt) == [access_token |-> at, refresh_token |-> rt]

\* Token values: the access and refresh token stored at the start, an access
\* token issued by a refresh, a refresh token rotated by the server.
OldAccess == "old"
NewAccess == "new"
OldToken == 0
RotatedToken == 1

TokenState(exp, attempt, err) ==
  [expiresAt |-> exp, lastRefreshAttempt |-> attempt, lastRefreshError |-> err]

\* writeTokenState(hash, {lastRefreshAttempt, lastRefreshError}): the given
\* fields are merged over the stored state ({} when there is none).
writeTokenState(existing, attempt, err) ==
  TokenState(IF existing = NoFile THEN undefined ELSE existing.expiresAt, attempt, err)

\* Mutant of isTokenExpiringSoon: a token expiring exactly leadTime from now is
\* not yet expiring.
isTokenExpiringSoon_StrictLead(state, leadTime, t) ==
  IF state = NoFile \/ state.expiresAt = undefined THEN FALSE
  ELSE IF state.expiresAt <= t THEN TRUE
  ELSE state.expiresAt - t < leadTime

\* isTokenExpiringSoon(state, leadTimeMs, now)
isTokenExpiringSoon(state, leadTime, t) ==
  IF state = NoFile \/ state.expiresAt = undefined THEN FALSE
  ELSE IF state.expiresAt <= t THEN TRUE
  ELSE state.expiresAt - t <= leadTime

\* Mutant of tryAcquireRefreshLock: a stored lock never expires.
tryAcquireRefreshLock_NoExpiry(l, pid, t, ttlMs) ==
  IF l # NoFile
    THEN [acquired |-> FALSE, lock |-> l]
    ELSE [acquired |-> TRUE, lock |-> [pid |-> pid, expiresAt |-> t + ttlMs]]

\* tryAcquireRefreshLock(hash, ttlMs) by process pid at time t on lock file l:
\* refused while an unexpired lock is stored, otherwise the lock is (re)written.
tryAcquireRefreshLock(l, pid, t, ttlMs) ==
  IF l # NoFile /\ l.expiresAt > t
    THEN [acquired |-> FALSE, lock |-> l]
    ELSE [acquired |-> TRUE, lock |-> [pid |-> pid, expiresAt |-> t + ttlMs]]

\* releaseRefreshLock(hash) by process pid: the lock file is removed.
releaseRefreshLock(l, pid) == NoFile

\* ------------------------------------------------------------------------
\* TokenRefreshManager.refreshIfNeeded, one action per await
\* ------------------------------------------------------------------------

\* Positions at which no call is running: never called, or how the last call
\* ended (skipped by the backoff check, returned early because nothing was to
\* be refreshed, returned because the lock was held, refreshed, failed and
\* recorded, threw).
Done == {"idle", "backoff", "skipped", "lockBusy", "refreshed", "failed", "threw"}

\* Positions inside performRefresh.
Performing == {"perform", "grant", "save", "record"}

\* Positions between the acquisition and the release of the refresh lock.
Holding == {"perform", "grant", "save", "record", "catch", "finally", "finallyThrow"}

NoTokens == Tokens(OldAccess, OldToken)

\* The call is over: its locals are gone.
Leave(p, how) ==
  /\ pc' = [pc EXCEPT ![p] = how]
  /\ refreshToken' = [refreshToken EXCEPT ![p] = OldToken]
  /\ newTokens' = [newTokens EXCEPT ![p] = NoTokens]

\* catch (error): failureBackoff.set(hash, Date.now() + failureBackoffMs),
\* then await writeTokenState(...)
Caught(p) ==
  /\ pc' = [pc EXCEPT ![p] = "catch"]
  /\ failureBackoff' = [failureBackoff EXCEPT ![p][key[p]] = now + failureBackoffMs]

\* Mutant of RefreshBegin: the backoff check is missing.
RefreshBegin_NoBackoff(p, k) ==
  /\ UNCHANGED <<scanVars, authVars, restVars>>
  /\ alive[p] /\ pc[p] \in Done
  /\ key' = [key EXCEPT ![p] = k]
  /\ IF ~registration[k]
       THEN pc' = [pc EXCEPT ![p] = "skipped"]
       ELSE pc' = [pc EXCEPT ![p] = "tokens"]
  /\ UNCHANGED <<now, tokensFile, tokenState, registration, refreshLock, alive,
                 refreshToken, newTokens, failureBackoff>>

\* now = Date.now(); the backoff check; await readServerRegistration(hash)
RefreshBegin(p, k) ==
  /\ UNCHANGED <<scanVars, authVars, restVars>>
  /\ alive[p] /\ pc[p] \in Done
  /\ LET failureUntil == failureBackoff[p][k] IN
       /\ key' = [key EXCEPT ![p] = k]
       /\ IF failureUntil # undefined /\ failureUntil > now
            THEN pc' = [pc EXCEPT ![p] = "backoff"]
          ELSE IF ~registration[k]
            THEN pc' = [pc EXCEPT ![p] = "skipped"]
          ELSE pc' = [pc EXCEPT ![p] = "tokens"]
  /\ UNCHANGED <<now, tokensFile, tokenState, registration, refreshLock, alive,
                 refreshToken, newTokens, failureBackoff>>

\* tokens = await provider.tokens()
ReadTokens(p) ==
  /\ UNCHANGED <<scanVars, authVars, restVars>>
  /\ alive[p] /\ pc[p] = "tokens"
  /\ LET tokens == tokensFile[key[p]] IN
       IF tokens = NoFile \/ tokens.refresh_token = undefined
         THEN Leave(p, "skipped")
         ELSE /\ pc' = [pc EXCEPT ![p] = "state"]
              /\ refreshToken' = [refreshToken EXCEPT ![p] = tokens.refresh_token]
              /\ UNCHANGED newTokens
  /\ UNCHANGED <<now, tokensFile, tokenState, registration, refreshLock, alive, key,
                 failureBackoff>>

\* Mutant of ReadState: the expiry of the token is not looked at.
ReadState_NoCheck(p) ==
  /\ UNCHANGED <<scanVars, authVars, restVars>>
  /\ alive[p] /\ pc[p] = "state"
  /\ pc' = [pc EXCEPT ![p] = "lock"]
  /\ UNCHANGED <<now, tokensFile, tokenState, registration, refreshLock, alive, key,
                 refreshToken, newTokens, failureBackoff>>

\* state = await readTokenState(hash); isTokenExpiringSoon(state, leadTimeMs)
ReadState(p) ==
  /\ UNCHANGED <<scanVars, authVars, restVars>>
  /\ alive[p] /\ pc[p] = "state"
  /\ IF isTokenExpiringSoon(tokenState[key[p]], leadTimeMs, now)
       THEN pc' = [pc EXCEPT ![p] = "lock"] /\ UNCHANGED <<refreshToken, newTokens>>
       ELSE Leave(p, "skipped")
  /\ UNCHANGED <<now, tokensFile, tokenState, registration, refreshLock, alive, key,
                 failureBackoff>>

\* Mutant of AcquireLock: the result of tryAcquireRefreshLock is not looked at.
AcquireLock_IgnoreResult(p) ==
  /\ UNCHANGED <<scanVars, authVars, restVars>>
  /\ alive[p] /\ pc[p] = "lock"
  /\ LET got == tryAcquireRefreshLock(refreshLock[key[p]], p, now, lockTtlMs) IN
       refreshLock' = [refreshLock EXCEPT ![key[p]] = got.lock]
  /\ pc' = [pc EXCEPT ![p] = "perform"]
  /\ UNCHANGED <<now, tokensFile, tokenState, registration, alive, key,
                 refreshToken, newTokens, failureBackoff>>

\* acquired = await tryAcquireRefreshLock(hash, lockTtlMs)
AcquireLock(p) ==
  /\ UNCHANGED <<scanVars, authVars, restVars>>
  /\ alive[p] /\ pc[p] = "lock"
  /\ LET l == refreshLock[key[p]]
         got == tryAcquireRefreshLock(l, p, now, lockTtlMs) IN
       /\ refreshLock' = [refreshLock EXCEPT ![key[p]] = got.lock]
       /\ IF got.acquired
            THEN /\ pc' = [pc EXCEPT ![p] = "perform"]
                 /\ UNCHANGED <<refreshToken, newTokens>>
            ELSE Leave(p, "lockBusy")
  /\ UNCHANGED <<now, tokensFile, tokenState, registration, alive, key,
                 failureBackoff>>

\* performRefresh: provider.clientInformation() and resolveAuthorizationContext;
\* a missing client registration or a failed discovery throws.
Discover(p) ==
  /\ UNCHANGED <<scanVars, authVars, restVars>>
  /\ alive[p] /\ pc[p] = "perform"
  /\ \/ pc' = [pc EXCEPT ![p] = "grant"] /\ UNCHANGED failureBackoff
     \/ Caught(p)
  /\ UNCHANGED <<now, tokensFile, tokenState, registration, refreshLock, alive, key,
                 refreshToken, newTokens>>

\* performRefresh: newTokens = await refreshAuthorization(..., refreshToken, ...);
\* the authorization server answers with a new access token (the refresh token
\* kept, or replaced by a rotated one) or with an error.
Grant(p) ==
  /\ UNCHANGED <<scanVars, authVars, restVars>>
  /\ alive[p] /\ pc[p] = "grant"
  /\ \/ /\ \E rt \in {refreshToken[p], RotatedToken} :
             newTokens' = [newTokens EXCEPT ![p] = Tokens(NewAccess, rt)]
        /\ pc' = [pc EXCEPT ![p] = "save"]
        /\ UNCHANGED failureBackoff
     \/ Caught(p) /\ UNCHANGED newTokens
  /\ UNCHANGED <<now, tokensFile, tokenState, registration, refreshLock, alive, key,
                 refreshToken>>

\* performRefresh: await provider.saveTokens(newTokens)
SaveTokens(p) ==
  /\ UNCHANGED <<scanVars, authVars, restVars>>
  /\ alive[p] /\ pc[p] = "save"
  /\ \/ /\ tokensFile' = [tokensFile EXCEPT ![key[p]] = newTokens[p]]
        /\ pc' = [pc EXCEPT ![p] = "record"]
        /\ UNCHANGED failureBackoff
     \/ Caught(p) /\ UNCHANGED tokensFile
  /\ UNCHANGED <<now, tokenState, registration, refreshLock, alive, key,
                 refreshToken, newTokens>>

\* performRefresh: await writeTokenState(hash, {lastRefreshAttempt, lastRefreshError:
\* undefined}); back in refreshIfNeeded: failureBackoff.delete(hash)
RecordSuccess(p) ==
  /\ UNCHANGED <<scanVars, authVars, restVars>>
  /\ alive[p] /\ pc[p] = "record"
  /\ \/ /\ tokenState' = [tokenState EXCEPT
                            ![key[p]] = writeTokenState(tokenState[key[p]], now, FALSE)]
        /\ failureBackoff' = [failureBackoff EXCEPT ![p][key[p]] = undefined]
        /\ pc' = [pc EXCEPT ![p] = "finally"]
     \/ Caught(p) /\ UNCHANGED tokenState
  /\ UNCHANGED <<now, tokensFile, registration, refreshLock, alive, key,
                 refreshToken, newTokens>>

\* catch: await writeTokenState(hash, {lastRefreshAttempt, lastRefreshError: message});
\* when the write throws, the exception leaves the catch block
RecordFailure(p) ==
  /\ UNCHANGED <<scanVars, authVars, restVars>>
  /\ alive[p] /\ pc[p] = "catch"
  /\ \/ /\ tokenState' = [tokenState EXCEPT
                            ![key[p]] = writeTokenState(tokenState[key[p]], now, TRUE)]
        /\ pc' = [pc EXCEPT ![p] = "finally"]
     \/ /\ pc' = [pc EXCEPT ![p] = "finallyThrow"]
        /\ UNCHANGED tokenState
  /\ UNCHANGED <<now, tokensFile, registration, refreshLock, alive, key,
                 refreshToken, newTokens, failureBackoff>>

\* How a call that went through the try block ends once finally has run.
Outcome(p) ==
  IF pc[p] = "finallyThrow" THEN "threw"
  ELSE IF failureBackoff[p][key[p]] = undefined THEN "refreshed" ELSE "failed"

\* Mutant of refreshIfNeededFinally: the release sits after the catch block
\* instead of in finally, so an exception leaving the catch block skips it.
refreshIfNeededFinally_AfterCatch(p) ==
  /\ refreshLock' = [refreshLock EXCEPT
                       ![key[p]] = IF pc[p] = "finallyThrow" THEN @
                                   ELSE releaseRefreshLock(@, p)]
  /\ Leave(p, Outcome(p))

\* finally: await releaseRefreshLock(hash); then the call returns or rethrows
refreshIfNeededFinally(p) ==
  /\ refreshLock' = [refreshLock EXCEPT
                       ![key[p]] = releaseRefreshLock(refreshLock[key[p]], p)]
  /\ Leave(p, Outcome(p))

Release(p) ==
  /\ UNCHANGED <<scanVars, authVars, restVars>>
  /\ alive[p] /\ pc[p] \in {"finally", "finallyThrow"}
  /\ refreshIfNeededFinally(p)
  /\ UNCHANGED <<now, tokensFile, tokenState, registration, alive, key,
                 failureBackoff>>

\* The process dies while the stored refresh lock is its own.
Crash(p) ==
  /\ UNCHANGED <<scanVars, authVars, restVars>>
  /\ alive[p] /\ pc[p] \in Holding
  /\ refreshLock[key[p]] # NoFile /\ refreshLock[key[p]].pid = p
  /\ alive' = [alive EXCEPT ![p] = FALSE]
  /\ UNCHANGED <<now, tokensFile, tokenState, registration, refreshLock, pc, key,
                 refreshToken, newTokens, failureBackoff>>

\* Time passes.
Tick ==
  /\ UNCHANGED <<scanVars, authVars, restVars>>
  /\ now < MaxTime
  /\ now' = now + 1
  /\ UNCHANGED <<tokensFile, tokenState, registration, refreshLock, alive, pc, key,
                 refreshToken, newTokens, failureBackoff>>

\* ------------------------------------------------------------------------
\* The parts of the state a specification leaves at rest
\* ------------------------------------------------------------------------

\* What listServerHashesWithTokens() finds when tokens are stored.
serverHashes == <<"s1", "s2", "s3">>

\* A runScan call in flight: at = 0 while it awaits listServerHashesWithTokens,
\* at = i while it awaits refreshIfNeeded of the i-th server; failed when the
\* refreshIfNeeded of an earlier server of this scan threw.
ScanStates == [at : 0..Len(serverHashes), failed : BOOLEAN]

Listing == [at |-> 0, failed |-> FALSE]

\* A manager as constructed with default options: disabled, never started.
ScanIdle ==
  /\ enabled = FALSE
  /\ stopped = TRUE
  /\ timer = "null"
  /\ orphanTimers = 0
  /\ scans = [sc \in ScanStates |-> 0]

NoArgs == [none |-> TRUE]
NoResult == [none |-> TRUE]

\* The call returned v.
Returned(v) == [value |-> v]

\* No helper function has been called.
CalcIdle == args = NoArgs /\ result = NoResult

NoMeta == [absent |-> TRUE]

\* No discovery has been called.
DiscIdle ==
  /\ call = NoArgs
  /\ dpc = "idle"
  /\ prm = NoMeta
  /\ idx = 0
  /\ requests = <<>>
  /\ bundle = NoResult

Unset == "unset"

\* connectToRemoteServer has not been called.
ConnIdle ==
  /\ conn = NoArgs
  /\ env = Unset
  /\ cpc = "idle"
  /\ saved = <<>>
  /\ reasons = {}
  /\ attempts = 0
  /\ transport = "none"
  /\ response = "none"
  /\ skipBrowserAuth = FALSE
  /\ authLog = <<>>
  /\ authRequests = <<>>
  /\ tokensJson = NoFile
  /\ outcome = NoResult

\* No task uses the config directory, which does not exist.
StoreIdle ==
  /\ versioned = FALSE
  /\ disk = <<>>
  /\ migrationRun = FALSE
  /\ migrateCalls = 0
  /\ task = <<>>
  /\ others = 0

\* No provider is constructed.
ProvIdle ==
  /\ provider = NoArgs
  /\ records = <<>>
  /\ lastCall = NoArgs
  /\ calls = 0

\* Neither runClient nor runProxy is called.
RunIdle ==
  /\ program = "none"
  /\ rpc = "idle"
  /\ server = "null"
  /\ onclose = FALSE
  /\ handlers = FALSE
  /\ sent = <<>>
  /\ exit = NoResult

\* No authorization flow is started and no code verifier is stored.
PkceIdle ==
  /\ verifierFile = NoFile
  /\ fpc = <<>>
  /\ flows = <<>>
  /\ exchanges = {}

\* The parts specified last are at rest.
MoreIdle == StoreIdle /\ ProvIdle /\ RunIdle /\ PkceIdle

\* The parts specified further down are at rest.
RestIdle == CalcIdle /\ DiscIdle /\ ConnIdle /\ MoreIdle

\* No process has called initializeAuth and no lockfile is stored.
AuthIdle ==
  /\ lockfile = NoFile
  /\ apc = [p \in Procs |-> "start"]
  /\ seen = [p \in Procs |-> NoFile]
  /\ listener = [p \in Procs |-> FALSE]
  /\ settleAt = [p \in Procs |-> undefined]

\* No refreshIfNeeded call is made and no credential file is stored.
RefreshIdle ==
  /\ now = 0
  /\ tokensFile = [k \in Keys |-> NoFile]
  /\ tokenState = [k \in Keys |-> NoFile]
  /\ registration = [k \in Keys |-> FALSE]
  /\ refreshLock = [k \in Keys |-> NoFile]
  /\ alive = [p \in Procs |-> TRUE]
  /\ pc = [p \in Procs |-> "idle"]
  /\ key = [p \in Procs |-> CHOOSE k \in Keys : TRUE]
  /\ refreshToken = [p \in Procs |-> OldToken]
  /\ newTokens = [p \in Procs |-> NoTokens]
  /\ failureBackoff = [p \in Procs |-> [k \in Keys |-> undefined]]

\* Stored sessions the managers may find: tokens with or without a refresh
\* token, with or without a token state, expiring soon or late.
InitRefresh ==
  /\ ScanIdle
  /\ AuthIdle
  /\ RestIdle
  /\ now = 0
  /\ tokensFile \in [Keys -> {NoFile, Tokens(OldAccess, OldToken), Tokens(OldAccess, undefined)}]
  /\ tokenState \in [Keys -> {NoFile, TokenState(1, undefined, FALSE),
                              TokenState(MaxTime + leadTimeMs + 1, undefined, FALSE)}]
  /\ registration \in [Keys -> BOOLEAN]
  /\ refreshLock = [k \in Keys |-> NoFile]
  /\ alive = [p \in Procs |-> TRUE]
  /\ pc = [p \in Procs |-> "idle"]
  /\ key = [p \in Procs |-> CHOOSE k \in Keys : TRUE]
  /\ refreshToken = [p \in Procs |-> OldToken]
  /\ newTokens = [p \in Procs |-> NoTokens]
  /\ failureBackoff = [p \in Procs |-> [k \in Keys |-> undefined]]

NextRefresh ==
  \/ \E p \in Procs, k \in Keys : RefreshBegin(p, k)
  \/ \E p \in Procs : ReadTokens(p)
  \/ \E p \in Procs : ReadState(p)
  \/ \E p \in Procs : AcquireLock(p)
  \/ \E p \in Procs : Discover(p)
  \/ \E p \in Procs : Grant(p)
  \/ \E p \in Procs : SaveTokens(p)
  \/ \E p \in Procs : RecordSuccess(p)
  \/ \E p \in Procs : RecordFailure(p)
  \/ \E p \in Procs : Release(p)
  \/ \E p \in Procs : Crash(p)
  \/ Tick

SpecRefresh == InitRefresh /\ [][NextRefresh]_vars

\* ------------------------------------------------------------------------
\* Claims about the refresh lock and refreshIfNeeded (under SpecRefresh)
\* ------------------------------------------------------------------------

\* Process p takes a step of its tryAcquireRefreshLock call.
AcquireStep(p) == pc[p] = "lock" /\ pc'[p] # "lock"

C4_NoConcurrentGrant ==
  \A p, q \in Procs :
    (p # q /\ alive[p] /\ alive[q] /\ key[p] = key[q])
      => ~(pc[p] \in Performing /\ pc[q] \in Performing)

\* C5: an acquisition attempted by another owner after the stored lock's
\* expires_at succeeds and makes the caller the owner, whether or not the
\* previous holder is still alive.
C5_ExpiredLockAcquired ==
  [][\A p \in Procs : AcquireStep(p) =>
       LET l == refreshLock[key[p]] IN
         (l # NoFile /\ l.pid # p /\ l.expiresAt < now)
           => (pc'[p] = "perform" /\ refreshLock'[key[p]].pid = p)
    ]_vars

\* C5 witness: p crashed holding its lock, and q has since acquired the lock.
C5_Witness ==
  \E p, q \in Procs :
    /\ p # q /\ ~alive[p] /\ pc[p] \in Holding /\ key[p] = key[q]
    /\ pc[q] \in Holding /\ alive[q]
    /\ refreshLock[key[q]] # NoFile /\ refreshLock[key[q]].pid = q

\* C6: once a refreshIfNeeded call is over (returned or thrown), no lock file
\* owned by the calling process remains.
C6_ReleasedOnReturn ==
  \A p \in Procs : \A k \in Keys :
    (alive[p] /\ pc[p] \in Done)
      => (refreshLock[k] = NoFile \/ refreshLock[k].pid # p)

\* C6 witness: a call ended by rethrowing the failure raised while the error
\* was being recorded.
C6_Witness == \E p \in Procs : pc[p] = "threw"

\* Process p takes the step of refreshIfNeeded that starts a call.
BeginStep(p) == pc[p] \in Done /\ pc'[p] # pc[p]

\* C7, the parts that hold of every call: a call made before the backoff
\* deadline ends at the backoff check and touches neither the lock nor the
\* stored tokens or state; a call is turned away by the backoff check only
\* before the deadline.
C7_Backoff(p) ==
  LET failureUntil == failureBackoff[p][key'[p]] IN
    BeginStep(p) =>
      /\ (failureUntil # undefined /\ now < failureUntil)
           => (pc'[p] = "backoff" /\ UNCHANGED <<refreshLock, tokensFile, tokenState>>)
      /\ pc'[p] = "backoff" => (failureUntil # undefined /\ now < failureUntil)

\* C7: a successful attempt clears last_refresh_error and the backoff entry.
C7_SuccessClears(p) ==
  (pc[p] = "record" /\ pc'[p] = "finally")
    => /\ tokenState'[key[p]].lastRefreshError = FALSE
       /\ failureBackoff'[p][key[p]] = undefined

\* C7: a failure sets the backoff deadline to failure time + failureBackoffMs.
C7_FailureSetsDeadline(p) ==
  (pc[p] \in Performing /\ pc'[p] = "catch")
    => failureBackoff'[p][key[p]] = now + failureBackoffMs

KeyFiles(p) == <<refreshLock[key'[p]], tokensFile[key'[p]], tokenState[key'[p]]>>

\* The same files after the step.
KeyFilesAfter(p) == <<refreshLock'[key'[p]], tokensFile'[key'[p]], tokenState'[key'[p]]>>

\* Process p moves to position at in this step.
Reaches(p, at) == pc[p] # at /\ pc'[p] = at

\* C32: within a call the checks come in the order backoff, registration,
\* tokens with a refresh_token, expiring soon, lock acquired; performRefresh
\* (the discovery and the grant, the only network calls) is entered only
\* after all five passed, and a call that ends at a failed check has left the
\* key's refresh lock, tokens and token state as they were.
C32_ChecksInOrder ==
  [][\A p \in Procs :
       LET failureUntil == failureBackoff[p][key'[p]] IN
         /\ Reaches(p, "tokens")
              => /\ pc[p] \in Done
                 /\ ~(failureUntil # undefined /\ failureUntil > now)
                 /\ registration[key'[p]]
         /\ Reaches(p, "state")
              => /\ pc[p] = "tokens"
                 /\ tokensFile[key[p]] # NoFile
                 /\ tokensFile[key[p]].refresh_token # undefined
         /\ Reaches(p, "lock")
              => /\ pc[p] = "state"
                 /\ isTokenExpiringSoon(tokenState[key[p]], leadTimeMs, now)
         /\ Reaches(p, "perform")
              => /\ pc[p] = "lock"
                 /\ refreshLock'[key[p]] = [pid |-> p, expiresAt |-> now + lockTtlMs]
         /\ Reaches(p, "grant") => pc[p] = "perform"
         /\ (pc'[p] # pc[p] /\ pc'[p] \in {"backoff", "skipped", "lockBusy", "tokens", "state", "lock"})
              => /\ pc[p] \in Done \cup {"tokens", "state", "lock"}
                 /\ KeyFilesAfter(p) = KeyFiles(p)
    ]_vars

\* C32 witness: p passed the five checks and is about to make the grant
\* while the call of q ended at its first check, the backoff.
C32_Witness ==
  \E p, q \in Procs :
    /\ p # q /\ pc[p] = "grant" /\ pc[q] = "backoff"
    /\ refreshLock[key[p]] # NoFile /\ refreshLock[key[p]].pid = p

\* C33 (as claimed): when a successful refresh has been recorded, the stored
\* tokens are the new ones and the stored expiresAt is that of the new token,
\* so the token is no longer expiring soon.
C33_ExpiryRecomputed ==
  [][\A p \in Procs :
       (pc[p] = "record" /\ pc'[p] = "finally")
         => /\ tokensFile'[key[p]] = newTokens[p]
            /\ ~isTokenExpiringSoon(tokenState'[key[p]], leadTimeMs, now)
    ]_vars

\* C37 (as claimed): the refresh token a process sends in its grant is the
\* one stored while it holds the refresh lock.
C37_GrantUsesStoredToken ==
  [][\A p \in Procs :
       (pc[p] = "grant" /\ pc'[p] # "grant" /\ alive[p])
         => /\ tokensFile[key[p]] # NoFile
            /\ refreshToken[p] = tokensFile[key[p]].refresh_token
    ]_vars

\* C38 (as claimed): the release at the end of a call never removes a stored
\* refresh lock whose owner is another process.
C38_ReleaseOwnLockOnly ==
  [][\A p \in Procs :
       (pc[p] \in {"finally", "finallyThrow"} /\ pc'[p] \in Done)
         => LET l == refreshLock[key[p]] IN
              (l # NoFile /\ l.pid # p) => refreshLock'[key[p]] = l
    ]_vars

\* ------------------------------------------------------------------------
\* TokenRefreshManager: start, stop, scheduleNextScan, the timer callback and
\* runScan, of one manager
\* ------------------------------------------------------------------------

\* timeouts set by scheduleNextScan that have neither fired nor been cleared
PendingTimers == (IF timer = "pending" THEN 1 ELSE 0) + orphanTimers

RECURSIVE SumScans(_)
SumScans(S) ==
  IF S = {} THEN 0
  ELSE LET sc == CHOOSE x \in S : TRUE IN scans[sc] + SumScans(S \ {sc})

\* runScan calls in flight
InFlight == SumScans(ScanStates)

\* scheduleNextScan(delayMs), called when this.stopped is isStopped: this.timer
\* is overwritten with the new handle; a pending timeout it held stays set.
scheduleNextScan(isStopped) ==
  IF isStopped
    THEN UNCHANGED <<timer, orphanTimers>>
    ELSE /\ timer' = "pending"
         /\ orphanTimers' = IF timer = "pending" THEN orphanTimers + 1 ELSE orphanTimers

\* start(): returns at once when disabled or already running
start ==
  /\ enabled /\ stopped
  /\ PendingTimers + InFlight < MaxChains
  /\ stopped' = FALSE
  /\ scheduleNextScan(FALSE)
  /\ UNCHANGED <<enabled, scans>>
  /\ UNCHANGED <<refreshVars, authVars, restVars>>

\* stop(): clearTimeout(this.timer) cancels that timeout if it is still pending
stop ==
  /\ timer' = "null"
  /\ stopped' = TRUE
  /\ UNCHANGED <<enabled, orphanTimers, scans>>
  /\ UNCHANGED <<refreshVars, authVars, restVars>>

\* The timeout callback begins runScan(), up to its first await.
BeginScan == scans' = [scans EXCEPT ![Listing] = @ + 1]

\* The timeout whose handle this.timer holds fires.
TimerFire ==
  /\ timer = "pending"
  /\ timer' = "fired"
  /\ BeginScan
  /\ UNCHANGED <<enabled, stopped, orphanTimers>>
  /\ UNCHANGED <<refreshVars, authVars, restVars>>

\* A timeout whose handle was overwritten fires.
OrphanTimerFire ==
  /\ orphanTimers > 0
  /\ orphanTimers' = orphanTimers - 1
  /\ BeginScan
  /\ UNCHANGED <<enabled, stopped, timer>>
  /\ UNCHANGED <<refreshVars, authVars, restVars>>

\* runScan() of the scan in state sc settles, resolved or rejected:
\* .catch logs a rejection, .finally calls scheduleNextScan(intervalMs)
ScanSettled(sc) ==
  /\ scans' = [scans EXCEPT ![sc] = @ - 1]
  /\ scheduleNextScan(stopped)

\* serverHashes = await listServerHashesWithTokens(): it throws, finds no
\* server (runScan returns), or finds the servers (the loop begins)
ListServers ==
  /\ scans[Listing] > 0
  /\ \E found \in {"throws", "none", "servers"} :
       IF found = "servers"
         THEN /\ scans' = [scans EXCEPT ![Listing] = @ - 1,
                                        ![[at |-> 1, failed |-> FALSE]] = @ + 1]
              /\ UNCHANGED <<timer, orphanTimers>>
         ELSE ScanSettled(Listing)
  /\ UNCHANGED <<enabled, stopped>>
  /\ UNCHANGED <<refreshVars, authVars, restVars>>

\* Mutant of runScanLoop: no try/catch around refreshIfNeeded, an exception
\* ends the loop.
runScanLoop_NoCatch(sc, threw) ==
  [at |-> IF threw THEN Len(serverHashes) + 1 ELSE sc.at + 1, failed |-> sc.failed \/ threw]

\* for (const serverUrlHash of serverHashes) { try { await refreshIfNeeded }
\* catch { log } }: where the loop stands once the refreshIfNeeded of the
\* server at sc.at has returned or thrown (at > Len(serverHashes): loop over)
runScanLoop(sc, threw) ==
  [at |-> sc.at + 1, failed |-> sc.failed \/ threw]

\* await this.refreshIfNeeded(serverUrlHash) returns or throws
RefreshServer(sc) ==
  /\ sc.at >= 1 /\ scans[sc] > 0
  /\ \E threw \in BOOLEAN :
       LET next == runScanLoop(sc, threw) IN
         IF next.at <= Len(serverHashes)
           THEN /\ scans' = [scans EXCEPT ![sc] = @ - 1, ![next] = @ + 1]
                /\ UNCHANGED <<timer, orphanTimers>>
           ELSE ScanSettled(sc)
  /\ UNCHANGED <<enabled, stopped>>
  /\ UNCHANGED <<refreshVars, authVars, restVars>>

\* A manager just constructed, auto-refresh enabled or not.
InitScan ==
  /\ RefreshIdle
  /\ AuthIdle
  /\ RestIdle
  /\ enabled \in BOOLEAN
  /\ stopped = TRUE
  /\ timer = "null"
  /\ orphanTimers = 0
  /\ scans = [sc \in ScanStates |-> 0]

NextScan ==
  \/ start
  \/ stop
  \/ TimerFire
  \/ OrphanTimerFire
  \/ ListServers
  \/ \E sc \in ScanStates : RefreshServer(sc)

SpecScan == InitScan /\ [][NextScan]_vars

\* ------------------------------------------------------------------------
\* Claims about the scan loop (under SpecScan)
\* ------------------------------------------------------------------------

\* C8: a scan whose refreshIfNeeded threw goes on with the remaining servers
\* (it ends only while listing or at the last server), and whenever a scan
\* ends while the manager is not stopped, however it ends, the next scan is
\* scheduled.
C8_ScanLoopSurvives ==
  [][\A sc \in ScanStates : scans'[sc] < scans[sc] =>
       /\ (sc.at >= 1 /\ sc.at < Len(serverHashes))
            => /\ InFlight' = InFlight
               /\ \E threw \in BOOLEAN :
                    scans'[[at |-> sc.at + 1, failed |-> sc.failed \/ threw]]
                      > scans[[at |-> sc.at + 1, failed |-> sc.failed \/ threw]]
       /\ (InFlight' < InFlight /\ ~stopped)
            => (timer' = "pending" /\ PendingTimers' = PendingTimers + 1)
    ]_vars

\* C8 witness: a scan is refreshing the second server after the refresh of the
\* first one threw.
C8_Witness == scans[[at |-> 2, failed |-> TRUE]] > 0

\* C9 (as claimed): at most one scan chain is active: one pending timer, or
\* one scan in flight that will schedule its successor.
C9_AtMostOneChain == PendingTimers + (IF stopped THEN 0 ELSE InFlight) <= 1

\* C10 (as claimed): stop() leaves no scan timer pending, and no scan begins
\* while the manager is stopped.
C10_StopCancels ==
  [][/\ (stopped' /\ ~stopped) => PendingTimers' = 0
     /\ stopped => InFlight' <= InFlight
    ]_vars

\* ------------------------------------------------------------------------
\* The interactive authorization: the lockfile, initializeAuth, authInitializer
\* ------------------------------------------------------------------------

\* authInitializer: the delay after skipBrowserAuth, in seconds
settleDelayMs == 1

\* a lock.json whose content is not a LockfileData
Unparseable == [garbage |-> TRUE]

\* createLockfile(hash, pid, port) at time t: the file is written, whatever
\* it held; the port is the one the process's callback server is bound to.
createLockfile(pid, t) == [pid |-> pid, port |-> pid, timestamp |-> t]

\* checkLockfile(hash) on file f: the data, or null (NoFile) when the file is
\* missing or does not parse.
checkLockfile(f) == IF f = NoFile \/ f = Unparseable THEN NoFile ELSE f

\* deleteLockfile(hash): the file is removed, whoever wrote it.
deleteLockfile(f) == NoFile

\* The process drives the interactive flow: its browser is open on the
\* authorization URL and it awaits the redirect.
InBrowserFlow(p) == apc[p] = "browser"

\* The owner's callback has received the authorization code: this is what a
\* waiting process detects as the completion of the owner's authorization.
AuthCompleted(q) == apc[q] \in {"exchange", "authorized", "authFailed"}

\* initializeAuth(): lockData = await checkLockfile(hash)
CheckLock(p) ==
  /\ alive[p] /\ apc[p] = "start"
  /\ seen' = [seen EXCEPT ![p] = checkLockfile(lockfile)]
  /\ apc' = [apc EXCEPT ![p] = "checked"]
  /\ UNCHANGED <<lockfile, listener, settleAt>>
  /\ UNCHANGED <<now, tokensFile, alive, refreshOnly, scanVars, restVars>>

\* Mutant of Coordinate: the owner's callback port is not probed.
Coordinate_NoProbe(p) ==
  /\ alive[p] /\ apc[p] = "checked"
  /\ IF seen[p] # NoFile /\ seen[p].pid = p
       THEN /\ apc' = [apc EXCEPT ![p] = "browser"]
            /\ seen' = [seen EXCEPT ![p] = NoFile]
            /\ UNCHANGED listener
       ELSE IF seen[p] # NoFile
       THEN /\ apc' = [apc EXCEPT ![p] = "waiting"]
            /\ UNCHANGED <<listener, seen>>
       ELSE /\ apc' = [apc EXCEPT ![p] = "create"]
            /\ listener' = [listener EXCEPT ![p] = TRUE]
            /\ seen' = [seen EXCEPT ![p] = NoFile]
  /\ UNCHANGED <<lockfile, settleAt>>
  /\ UNCHANGED <<now, tokensFile, alive, refreshOnly, scanVars, restVars>>

\* initializeAuth(): Unlocked, or locked by a process whose callback port
\* cannot be reached (stale): the caller binds its callback listener to
\* become the owner; locked by another live process: the caller waits;
\* locked by self: the caller reuses its listener and awaits the redirect.
Coordinate(p) ==
  /\ alive[p] /\ apc[p] = "checked"
  /\ IF seen[p] # NoFile /\ seen[p].pid = p
       THEN /\ apc' = [apc EXCEPT ![p] = "browser"]
            /\ seen' = [seen EXCEPT ![p] = NoFile]
            /\ UNCHANGED listener
       ELSE IF seen[p] # NoFile /\ listener[seen[p].port]
       THEN /\ apc' = [apc EXCEPT ![p] = "waiting"]
            /\ UNCHANGED <<listener, seen>>
       ELSE /\ apc' = [apc EXCEPT ![p] = "create"]
            /\ listener' = [listener EXCEPT ![p] = TRUE]
            /\ seen' = [seen EXCEPT ![p] = NoFile]
  /\ UNCHANGED <<lockfile, settleAt>>
  /\ UNCHANGED <<now, tokensFile, alive, refreshOnly, scanVars, restVars>>

\* initializeAuth(): await createLockfile(hash, pid, port); the caller is the
\* owner (skipBrowserAuth = false) and the flow opens the browser.
CreateLock(p) ==
  /\ alive[p] /\ apc[p] = "create"
  /\ lockfile' = createLockfile(p, now)
  /\ apc' = [apc EXCEPT ![p] = "browser"]
  /\ UNCHANGED <<seen, listener, settleAt>>
  /\ UNCHANGED <<now, tokensFile, alive, refreshOnly, scanVars, restVars>>

\* The browser's redirect reaches the owner's callback listener with the
\* authorization code.
Redirect(p) ==
  /\ alive[p] /\ apc[p] = "browser"
  /\ apc' = [apc EXCEPT ![p] = "exchange"]
  /\ UNCHANGED <<lockfile, seen, listener, settleAt>>
  /\ UNCHANGED <<now, tokensFile, alive, refreshOnly, scanVars, restVars>>

\* The owner exchanges the code for tokens and saves them (saveTokens writes
\* {hash}_tokens.json), or the exchange fails.
ExchangeCode(p) ==
  /\ alive[p] /\ apc[p] = "exchange"
  /\ \/ /\ tokensFile' = [k \in Keys |-> Tokens(OldAccess, OldToken)]
        /\ apc' = [apc EXCEPT ![p] = "authorized"]
     \/ /\ apc' = [apc EXCEPT ![p] = "authFailed"]
        /\ UNCHANGED tokensFile
  /\ UNCHANGED <<lockfile, seen, listener, settleAt>>
  /\ UNCHANGED <<now, alive, refreshOnly, scanVars, restVars>>

\* initializeAuth() of a waiting process: the owner reports that its
\* authorization completed (skipBrowserAuth = true, the settle delay of
\* authInitializer begins), or the wait is given up (timeout, owner gone).
WaitForAuth(p) ==
  /\ alive[p] /\ apc[p] = "waiting"
  /\ LET owner == seen[p].pid IN
       \/ /\ listener[owner] /\ AuthCompleted(owner)
          /\ apc' = [apc EXCEPT ![p] = "settle"]
          /\ settleAt' = [settleAt EXCEPT ![p] = now]
       \/ /\ ~(listener[owner] /\ AuthCompleted(owner))
          /\ apc' = [apc EXCEPT ![p] = "gaveUp"]
          /\ UNCHANGED settleAt
  /\ seen' = [seen EXCEPT ![p] = NoFile]
  /\ UNCHANGED <<lockfile, listener>>
  /\ UNCHANGED <<now, tokensFile, alive, refreshOnly, scanVars, restVars>>

\* authInitializer: await new Promise((res) => setTimeout(res, 1_000)), then
\* it returns skipBrowserAuth = true and the process goes on with the tokens
\* on disk.
SettleDelay(p) ==
  /\ alive[p] /\ apc[p] = "settle"
  /\ now >= settleAt[p] + settleDelayMs
  /\ apc' = [apc EXCEPT ![p] = "proceeded"]
  /\ UNCHANGED <<lockfile, seen, listener, settleAt>>
  /\ UNCHANGED <<now, tokensFile, alive, refreshOnly, scanVars, restVars>>

\* The process exits (done, failed, or the flow abandoned): server.close()
\* when it had a callback server, and the owner's cleanup removes the lockfile.
Exit(p) ==
  /\ alive[p] /\ apc[p] \in {"browser", "authorized", "authFailed", "proceeded", "gaveUp"}
  /\ apc' = [apc EXCEPT ![p] = "exited"]
  /\ listener' = [listener EXCEPT ![p] = FALSE]
  /\ lockfile' = IF listener[p] THEN deleteLockfile(lockfile) ELSE lockfile
  /\ settleAt' = [settleAt EXCEPT ![p] = undefined]
  /\ UNCHANGED seen
  /\ UNCHANGED <<now, tokensFile, alive, refreshOnly, scanVars, restVars>>

\* The owner dies: its port is closed by the system, its lockfile stays.
AuthCrash(p) ==
  /\ alive[p] /\ listener[p]
  /\ alive' = [alive EXCEPT ![p] = FALSE]
  /\ listener' = [listener EXCEPT ![p] = FALSE]
  /\ UNCHANGED <<lockfile, apc, seen, settleAt>>
  /\ UNCHANGED <<now, tokensFile, refreshOnly, scanVars, restVars>>

\* No tokens are stored; the lockfile is missing or left unparseable.
InitAuth ==
  /\ RefreshIdle
  /\ ScanIdle
  /\ RestIdle
  /\ lockfile \in {NoFile, Unparseable}
  /\ apc = [p \in Procs |-> "start"]
  /\ seen = [p \in Procs |-> NoFile]
  /\ listener = [p \in Procs |-> FALSE]
  /\ settleAt = [p \in Procs |-> undefined]

NextAuth ==
  \/ \E p \in Procs : CheckLock(p)
  \/ \E p \in Procs : Coordinate(p)
  \/ \E p \in Procs : CreateLock(p)
  \/ \E p \in Procs : Redirect(p)
  \/ \E p \in Procs : ExchangeCode(p)
  \/ \E p \in Procs : WaitForAuth(p)
  \/ \E p \in Procs : SettleDelay(p)
  \/ \E p \in Procs : Exit(p)
  \/ \E p \in Procs : AuthCrash(p)
  \/ Tick

SpecAuth == InitAuth /\ [][NextAuth]_vars

\* ------------------------------------------------------------------------
\* Claims about the interactive authorization (under SpecAuth)
\* ------------------------------------------------------------------------

\* C1 (as claimed): two live processes never both drive an interactive
\* browser authorization for the server at the same time.
C1_OneBrowserFlow ==
  \A p, q \in Procs :
    (p # q /\ alive[p] /\ alive[q]) => ~(InBrowserFlow(p) /\ InBrowserFlow(q))

\* C2 (as claimed): when a process that waited for the owner goes on with
\* skipBrowserAuth = true, the token file is on disk.
C2_TokensBeforeProceed ==
  \A p \in Procs : \A k \in Keys :
    (alive[p] /\ apc[p] = "proceeded") => tokensFile[k] # NoFile

\* the lock process p has read was written by a process that has died
SeenDeadOwner(p) == seen[p] # NoFile /\ seen[p].pid # p /\ ~alive[seen[p].pid]

MaxLead == 2

\* Token states tried: none, one without a numeric expiresAt, and every
\* expiresAt up to two past the largest now + leadTime.
ExpiryStates ==
  {NoFile} \cup {TokenState(e, undefined, FALSE) : e \in {undefined} \cup (0..(2 * MaxLead + 2))}

ExpiryArgs == [state : ExpiryStates, leadTimeMs : 0..MaxLead, now : 0..MaxLead]

InitExpiry ==
  /\ RefreshIdle /\ ScanIdle /\ AuthIdle /\ DiscIdle /\ ConnIdle /\ MoreIdle
  /\ args \in ExpiryArgs
  /\ result = NoResult

\* result = isTokenExpiringSoon(state, leadTimeMs, now)
CallIsTokenExpiringSoon ==
  /\ result = NoResult
  /\ result' = Returned(isTokenExpiringSoon(args.state, args.leadTimeMs, args.now))
  /\ UNCHANGED <<args, notCalc>>

NextExpiry == CallIsTokenExpiringSoon

SpecExpiry == InitExpiry /\ [][NextExpiry]_vars

\* C11: isTokenExpiringSoon is false for no state and for an expiresAt that
\* is not a number; otherwise it is true exactly when expiresAt <= now or
\* expiresAt - now <= leadTime; so expiresAt = now + leadTime - 1 is expiring
\* and expiresAt = now + leadTime + 1 is not.
C11_ExpiryClassification ==
  result # NoResult =>
    LET st == args.state
        lead == args.leadTimeMs
        t == args.now IN
      /\ (st = NoFile \/ st.expiresAt = undefined) => result = Returned(FALSE)
      /\ (st # NoFile /\ st.expiresAt # undefined) =>
           /\ result = Returned(st.expiresAt <= t \/ st.expiresAt - t <= lead)
           /\ st.expiresAt = t + lead - 1 => result = Returned(TRUE)
           /\ st.expiresAt = t + lead + 1 => result = Returned(FALSE)

\* C11 witness: a token expiring exactly leadTime from now, in the future, was
\* classified as expiring.
C11_Witness ==
  /\ result = Returned(TRUE)
  /\ args.state # NoFile /\ args.leadTimeMs > 0
  /\ args.state.expiresAt = args.now + args.leadTimeMs

\* ------------------------------------------------------------------------
\* Metadata discovery: discoverOAuthMetadata with fetchProtectedResourceMetadata,
\* and discoverProtectedResourceMetadata (SpecDiscover)
\* ------------------------------------------------------------------------

\* Hosts of URLs: a DNS name, an IPv4 literal or an IPv6 literal.
Name(n) == [kind |-> "name", name |-> n]
IPv4(a, b, c, d) == [kind |-> "ipv4", a |-> a, b |-> b, c |-> c, d |-> d]
IPv6(n) == [kind |-> "ipv6", name |-> n]

\* a string new URL() does not parse
InvalidUrl == [kind |-> "invalid"]

\* The targets tried: public ones and the internal ones of the SSRF tests.
Hosts ==
  {Name("example.com"), IPv4(8, 8, 8, 8), Name("localhost"), IPv4(127, 0, 0, 1), IPv6("::1"),
   IPv4(10, 0, 0, 1), IPv4(172, 16, 0, 1), IPv4(172, 31, 255, 255), IPv4(192, 168, 1, 1),
   IPv4(169, 254, 169, 254)}

\* url.hostname: an IPv6 literal keeps its brackets
hostname(h) ==
  CASE h.kind = "name" -> h.name
    [] h.kind = "ipv6" -> "[" \o h.name \o "]"
    [] h.kind = "ipv4" -> ToString(h.a) \o "." \o ToString(h.b) \o "." \o ToString(h.c)
                            \o "." \o ToString(h.d)

\* isInternalIP(url): the hostname is compared with three literals, then
\* matched against the dotted IPv4 pattern
isInternalIP(h) ==
  IF hostname(h) \in {"localhost", "127.0.0.1", "::1"} THEN TRUE
  ELSE IF h.kind = "ipv4"
    THEN \/ h.a = 10 \/ (h.a = 172 /\ h.b >= 16 /\ h.b <= 31) \/ (h.a = 192 /\ h.b = 168)
         \/ (h.a = 169 /\ h.b = 254)
  ELSE FALSE

\* Resource URLs: a host and a pathname
Paths == {"/", "/mcp"}
Resource(h, path) == [host |-> h, path |-> path]

\* a scopes_supported list; Absent when the field is missing
Absent == [absent |-> TRUE]
Scopes(l) == [list |-> l]
ScopeLists == {Absent, Scopes(<<>>), Scopes(<<"read">>)}

\* Issuers a protected resource may list, and the lists tried.
Issuers == {Name("auth.example.com"), IPv4(169, 254, 169, 254), InvalidUrl}
MaxIssuers == 2
IssuerLists == UNION {[1..n -> Issuers] : n \in 0..MaxIssuers}

\* The resource field of a response to a request for resource r: missing or
\* not a string, not a URL, r itself, r with another path, another origin.
ResourceFields(r) ==
  {Absent, InvalidUrl, r,
   Resource(r.host, CHOOSE q \in Paths : q # r.path),
   Resource(Name("evil.example.com"), r.path)}

\* JSON bodies of protected-resource and authorization-server responses
PRMBodies(r) ==
  [resource : ResourceFields(r), authorization_servers : IssuerLists,
   scopes_supported : ScopeLists]
ASMBodies == [issuer : {"issuer"}, scopes_supported : ScopeLists]

\* How a fetch ends without a usable body: fetch() rejects, the 5 s timeout
\* aborts it, a non-2xx status, a body that is not JSON, the JSON body null.
FetchFailures == {"networkError", "timeout", "status404", "status500", "malformed", "null"}

\* validateProtectedResourceMetadata(metadata, expectedResource): resource is
\* a string, a URL, and origin + pathname equal those of the expected one
validateProtectedResourceMetadata(metadata, expectedResource) ==
  IF metadata.resource = Absent THEN FALSE
  ELSE IF metadata.resource = InvalidUrl THEN FALSE
  ELSE /\ metadata.resource.host = expectedResource.host
       /\ metadata.resource.path = expectedResource.path

\* Mutant of nonEmpty: an empty list is kept.
nonEmpty_KeepEmpty(scopes) == scopes

\* x?.length ? x : undefined
nonEmpty(scopes) == IF scopes = Absent \/ scopes.list = <<>> THEN Absent ELSE scopes

\* a || b on scope lists
orElse(a, b) == IF a = Absent THEN b ELSE a

Request(stage, h, ok) == [stage |-> stage, host |-> h, ok |-> ok]

\* OAuthMetadata returned by discoverOAuthMetadata
Bundle(source, p, a, scopes) ==
  [discoverySource |-> source, protectedResourceMetadata |-> p,
   authorizationServerMetadata |-> a, effectiveScopes |-> scopes]

\* WWW-Authenticate headers passed to discoverProtectedResourceMetadata: none,
\* one without resource_metadata, one naming a metadata URL on some host.
NoHeader == [absent |-> TRUE]
Header(url) == [resourceMetadataUrl |-> url]
Headers ==
  {NoHeader, Header(Absent), Header(Name("meta.example.com")), Header(IPv4(169, 254, 169, 254)),
   Header(InvalidUrl)}

Calls ==
  [fn : {"discoverOAuthMetadata"}, resource : [host : Hosts, path : Paths], header : {NoHeader}]
    \cup
  [fn : {"discoverProtectedResourceMetadata"}, resource : [host : Hosts, path : Paths],
   header : Headers]

InitDiscover ==
  /\ RefreshIdle /\ ScanIdle /\ AuthIdle /\ CalcIdle /\ ConnIdle /\ MoreIdle
  /\ call \in Calls
  /\ dpc = "called"
  /\ prm = NoMeta
  /\ idx = 0
  /\ requests = <<>>
  /\ bundle = NoResult

\* Mutant of buildProtectedResourceMetadataUrls: the root URL comes first.
buildProtectedResourceMetadataUrls_RootFirst(resourceUrl) ==
  IF resourceUrl.path # "/" THEN <<"root", "path">> ELSE <<"root">>

\* buildProtectedResourceMetadataUrls(resourceUrl): the path-specific well-known
\* URL when the resource has a path, then the root one
buildProtectedResourceMetadataUrls(resourceUrl) ==
  IF resourceUrl.path # "/" THEN <<"path", "root">> ELSE <<"root">>

\* The function is entered: discoverOAuthMetadata starts with stage 1,
\* discoverProtectedResourceMetadata with the header's resource_metadata URL
\* when a header is supplied and names one.
BeginDiscovery ==
  /\ dpc = "called"
  /\ IF call.fn = "discoverOAuthMetadata"
       THEN dpc' = "prm" /\ idx' = idx
     ELSE IF call.header # NoHeader /\ call.header.resourceMetadataUrl # Absent
       THEN dpc' = "header" /\ idx' = idx
     ELSE dpc' = "wellKnown" /\ idx' = 1
  /\ UNCHANGED <<call, prm, requests, bundle, notDisc>>

\* where discoverOAuthMetadata goes once stage 1 has returned m
afterProtectedResource(m) ==
  IF m # NoMeta /\ Len(m.authorization_servers) > 0 THEN "issuer" ELSE "fallback"

\* protectedResourceMetadata = await fetchProtectedResourceMetadata(resourceUrl):
\* no request for an internal target; a fetched body is kept only if it
\* validates against the resource
FetchProtectedResource ==
  /\ dpc = "prm"
  /\ LET r == call.resource
         Got(m) == /\ prm' = m
                   /\ dpc' = afterProtectedResource(m)
                   /\ idx' = 1
     IN IF isInternalIP(r.host)
          THEN Got(NoMeta) /\ UNCHANGED requests
          ELSE \/ \E failure \in FetchFailures :
                    /\ requests' = Append(requests, Request("prm", r.host, FALSE))
                    /\ Got(NoMeta)
               \/ \E body \in PRMBodies(r) :
                    /\ requests' = Append(requests, Request("prm", r.host, TRUE))
                    /\ Got(IF validateProtectedResourceMetadata(body, r) THEN body ELSE NoMeta)
  /\ UNCHANGED <<call, bundle, notDisc>>

\* Mutant of issuerLoop: the loop goes on after an issuer answered.
issuerLoop_NoStop(found, i, n) ==
  IF i < n THEN "issuer" ELSE IF found THEN "done" ELSE "fallback"

\* for (const issuerUrl of authorization_servers) at issuer i of n: return
\* when the issuer's metadata was found, else the next issuer, else fall out
\* of the loop to the fallback
issuerLoop(found, i, n) ==
  IF found THEN "done" ELSE IF i < n THEN "issuer" ELSE "fallback"

\* authServerMetadata = await fetchAuthorizationServerMetadataFromIssuer(issuerUrl):
\* new URL(issuerUrl) throws on a string that is no URL; otherwise the fetch
\* is made, whatever the host
FetchIssuer ==
  /\ dpc = "issuer"
  /\ LET issuerUrl == prm.authorization_servers[idx]
         n == Len(prm.authorization_servers)
         Next(found) == /\ dpc' = issuerLoop(found, idx, n)
                        /\ idx' = IF issuerLoop(found, idx, n) = "issuer" THEN idx + 1 ELSE idx
     IN IF issuerUrl = InvalidUrl
          THEN dpc' = "raised" /\ UNCHANGED <<requests, idx, bundle>>
          ELSE \/ \E failure \in FetchFailures :
                    /\ requests' = Append(requests, Request("issuer", issuerUrl, FALSE))
                    /\ Next(FALSE)
                    /\ UNCHANGED bundle
               \/ \E a \in ASMBodies :
                    /\ requests' = Append(requests, Request("issuer", issuerUrl, TRUE))
                    /\ Next(TRUE)
                    /\ bundle' =
                         IF issuerLoop(TRUE, idx, n) = "done"
                           THEN Bundle("protected-resource", prm, a,
                                       orElse(nonEmpty(prm.scopes_supported),
                                              nonEmpty(a.scopes_supported)))
                           ELSE bundle
  /\ UNCHANGED <<call, prm, notDisc>>

\* authServerMetadata = await fetchAuthorizationServerMetadata(resourceUrl),
\* then the bundle of stage 2 or of stage 3
FetchFallback ==
  /\ dpc = "fallback"
  /\ \/ \E failure \in FetchFailures :
          /\ requests' = Append(requests, Request("fallback", call.resource.host, FALSE))
          /\ bundle' = Bundle("none", NoMeta, NoMeta, Absent)
     \/ \E a \in ASMBodies :
          /\ requests' = Append(requests, Request("fallback", call.resource.host, TRUE))
          /\ bundle' = Bundle("authorization-server", NoMeta, a, nonEmpty(a.scopes_supported))
  /\ dpc' = "done"
  /\ UNCHANGED <<call, prm, idx, notDisc>>

\* discoverProtectedResourceMetadata: metadata = await
\* fetchProtectedResourceMetadataFromUrl(params.resourceMetadataUrl); fetch()
\* of a string that is no URL rejects before any request
FetchHeaderUrl ==
  /\ dpc = "header"
  /\ LET url == call.header.resourceMetadataUrl
         Failed == dpc' = "wellKnown" /\ idx' = 1 /\ UNCHANGED bundle
     IN IF url = InvalidUrl
          THEN Failed /\ UNCHANGED requests
          ELSE \/ \E failure \in FetchFailures :
                    /\ requests' = Append(requests, Request("header", url, FALSE))
                    /\ Failed
               \/ \E body \in PRMBodies(call.resource) :
                    /\ requests' = Append(requests, Request("header", url, TRUE))
                    /\ bundle' = Returned(body)
                    /\ dpc' = "done" /\ idx' = idx
  /\ UNCHANGED <<call, prm, notDisc>>

\* discoverProtectedResourceMetadata: for (const url of wellKnownUrls)
\* { metadata = await fetchProtectedResourceMetadataFromUrl(url); if (metadata)
\* return metadata }; return undefined
FetchWellKnown ==
  /\ dpc = "wellKnown"
  /\ LET wellKnownUrls == buildProtectedResourceMetadataUrls(call.resource) IN
       \/ \E failure \in FetchFailures :
            /\ requests' = Append(requests, Request(wellKnownUrls[idx], call.resource.host, FALSE))
            /\ IF idx < Len(wellKnownUrls)
                 THEN idx' = idx + 1 /\ UNCHANGED <<dpc, bundle>>
                 ELSE dpc' = "done" /\ bundle' = Returned(NoMeta) /\ idx' = idx
       \/ \E body \in PRMBodies(call.resource) :
            /\ requests' = Append(requests, Request(wellKnownUrls[idx], call.resource.host, TRUE))
            /\ bundle' = Returned(body)
            /\ dpc' = "done" /\ idx' = idx
  /\ UNCHANGED <<call, prm, notDisc>>

NextDiscover ==
  \/ BeginDiscovery
  \/ FetchProtectedResource
  \/ FetchIssuer
  \/ FetchFallback
  \/ FetchHeaderUrl
  \/ FetchWellKnown

SpecDiscover == InitDiscover /\ [][NextDiscover]_vars

\* ------------------------------------------------------------------------
\* Claims about metadata discovery (under SpecDiscover)
\* ------------------------------------------------------------------------

\* A loopback, RFC 1918 private or link-local target.
IsInternalTarget(h) ==
  \/ h = Name("localhost") \/ h = IPv6("::1")
  \/ /\ h.kind = "ipv4"
     /\ \/ h.a = 127 \/ h.a = 10
        \/ (h.a = 172 /\ h.b \in 16..31)
        \/ (h.a = 192 /\ h.b = 168)
        \/ (h.a = 169 /\ h.b = 254)

\* C12 (as claimed): no fetch issued during a discovery targets a loopback,
\* private or link-local address.
C12_NoInternalFetch ==
  \A i \in DOMAIN requests : ~IsInternalTarget(requests[i].host)

\* C13 (as claimed): protected-resource metadata that a discovery keeps or
\* returns has a resource field equal, in origin and path, to the resource
\* asked for.
C13_ResourceValidated ==
  /\ prm # NoMeta => validateProtectedResourceMetadata(prm, call.resource)
  /\ (call.fn = "discoverProtectedResourceMetadata" /\ dpc = "done" /\ bundle # Returned(NoMeta))
       => validateProtectedResourceMetadata(bundle.value, call.resource)

\* C15 (as claimed): discoverOAuthMetadata never raises, and when no stage
\* obtained metadata it returns the bundle of source "none".
C15_NeverRaises ==
  /\ dpc # "raised"
  /\ (call.fn = "discoverOAuthMetadata" /\ dpc = "done"
        /\ \A i \in DOMAIN requests : ~requests[i].ok)
       => bundle = Bundle("none", NoMeta, NoMeta, Absent)

\* the requests of one stage, in the order issued
StageRequests(stage) == SelectSeq(requests, LAMBDA r : r.stage = stage)

\* C16: the issuers of authorization_servers are fetched in listed order, no
\* issuer is fetched after one has answered, there are never more issuer
\* fetches than issuers listed, the fallback to the resource's own origin is
\* fetched only after every listed issuer has failed, and a discovery that
\* found an issuer returns that issuer's bundle.
C16_IssuersInOrder ==
  LET tried == StageRequests("issuer")
      listed == IF prm = NoMeta THEN <<>> ELSE prm.authorization_servers
  IN /\ Len(tried) <= Len(listed)
     /\ \A k \in DOMAIN tried : tried[k].host = listed[k]
     /\ \A k \in DOMAIN tried : k < Len(tried) => ~tried[k].ok
     /\ StageRequests("fallback") # <<>>
          => /\ Len(tried) = Len(listed)
             /\ \A k \in DOMAIN tried : ~tried[k].ok
             /\ requests[Len(requests)].stage = "fallback"
     /\ (tried # <<>> /\ tried[Len(tried)].ok)
          => /\ dpc = "done" /\ bundle.discoverySource = "protected-resource"
             /\ requests[Len(requests)] = tried[Len(tried)]

\* C16 witness: the first issuer failed, the second answered, and the
\* discovery returned without a fetch from the resource's own origin.
C16_Witness ==
  /\ dpc = "done" /\ call.fn = "discoverOAuthMetadata"
  /\ Len(StageRequests("issuer")) = 2
  /\ ~StageRequests("issuer")[1].ok /\ StageRequests("issuer")[2].ok
  /\ StageRequests("fallback") = <<>>

\* the locations discoverProtectedResourceMetadata has to try, in order
ExpectedLocations ==
  (IF call.header # NoHeader /\ call.header.resourceMetadataUrl \notin {Absent, InvalidUrl}
     THEN <<"header">> ELSE <<>>)
  \o (IF call.resource.path # "/" THEN <<"path">> ELSE <<>>)
  \o <<"root">>

\* C17: discoverProtectedResourceMetadata tries the header's resource_metadata
\* URL (when a header is supplied and names one), then the path-specific
\* well-known URL (when the resource has a path), then the root one; nothing
\* is tried after a success, and it gives up only after the last location
\* failed.
C17_LocationsInOrder ==
  call.fn = "discoverProtectedResourceMetadata" =>
    /\ Len(requests) <= Len(ExpectedLocations)
    /\ \A k \in DOMAIN requests :
         /\ requests[k].stage = ExpectedLocations[k]
         /\ k < Len(requests) => ~requests[k].ok
    /\ dpc = "done" =>
         /\ requests # <<>>
         /\ IF requests[Len(requests)].ok
              THEN bundle # Returned(NoMeta)
              ELSE bundle = Returned(NoMeta) /\ Len(requests) = Len(ExpectedLocations)

\* C17 witness: the header's URL and the path-specific URL failed and the root
\* URL answered.
C17_Witness ==
  /\ call.fn = "discoverProtectedResourceMetadata" /\ dpc = "done"
  /\ Len(requests) = 3
  /\ ~requests[1].ok /\ ~requests[2].ok /\ requests[3].ok
  /\ requests[3].stage = "root"

\* ------------------------------------------------------------------------
\* NodeOAuthClientProvider: the effective scope (SpecScope)
\* ------------------------------------------------------------------------

\* a string value; Absent when undefined
Str(v) == [str |-> v]

\* if (x): neither undefined nor the empty string
truthy(x) == x # Absent /\ x # Str("")

DefaultScope == Str("openid email profile")

\* list.join(' ')
RECURSIVE join(_)
join(list) ==
  IF list = <<>> THEN ""
  ELSE IF Len(list) = 1 THEN list[1]
  ELSE list[1] \o " " \o join(Tail(list))

\* Scope strings and scope arrays tried at each tier.
ScopeStrings == {Absent, Str(""), Str("s")}
ScopeArrays == {Absent, Scopes(<<>>), Scopes(<<"a", "b">>)}

\* Registration responses passed to saveClientInformation; Absent: nothing
\* was registered.
ClientInfos ==
  {Absent} \cup
  [scope : {Absent, Str(""), Str("registered")}, default_scope : ScopeStrings,
   scopes : ScopeArrays, default_scopes : {Absent}]

\* The provider's options and fields: the static client metadata scope, the
\* registration response, the discovered metadata passed in by the client,
\* and this._scopes.
ScopeArgs ==
  [staticScope : {Absent, Str(""), Str("static")}, clientInfo : ClientInfos,
   protectedResourceScopes : ScopeArrays, authorizationServerScopes : ScopeArrays,
   scopes : {Absent}, saved : {FALSE}]

\* extractScopesFromRegistration(clientInfo)
extractScopesFromRegistration(clientInfo) ==
  IF truthy(clientInfo.scope) THEN clientInfo.scope
  ELSE IF truthy(clientInfo.default_scope) THEN clientInfo.default_scope
  ELSE IF clientInfo.scopes # Absent THEN Str(join(clientInfo.scopes.list))
  ELSE IF clientInfo.default_scopes # Absent THEN Str(join(clientInfo.default_scopes.list))
  ELSE DefaultScope

\* getEffectiveScope() of a provider with fields p
getEffectiveScope(p) ==
  IF truthy(p.staticScope) THEN p.staticScope
  ELSE IF truthy(p.scopes) THEN p.scopes
  ELSE DefaultScope

InitScope ==
  /\ RefreshIdle /\ ScanIdle /\ AuthIdle /\ DiscIdle /\ ConnIdle /\ MoreIdle
  /\ args \in ScopeArgs
  /\ result = NoResult

\* saveClientInformation(clientInformation): without a static scope,
\* this._scopes = extractScopesFromRegistration(clientInformation)
SaveClientInformation ==
  /\ result = NoResult /\ ~args.saved /\ args.clientInfo # Absent
  /\ args' = [args EXCEPT !.saved = TRUE,
                          !.scopes = IF truthy(args.staticScope) THEN @
                                     ELSE extractScopesFromRegistration(args.clientInfo)]
  /\ UNCHANGED <<result, notCalc>>

\* clientMetadata / redirectToAuthorization: this.getEffectiveScope(), once
\* the registration, if any, has been saved
CallGetEffectiveScope ==
  /\ result = NoResult
  /\ args.clientInfo # Absent => args.saved
  /\ result' = Returned(getEffectiveScope(args))
  /\ UNCHANGED <<args, notCalc>>

NextScope ==
  \/ SaveClientInformation
  \/ CallGetEffectiveScope

SpecScope == InitScope /\ [][NextScope]_vars

\* the first of the values that is neither missing nor empty, else the default
RECURSIVE firstNonEmpty(_)
firstNonEmpty(values) ==
  IF values = <<>> THEN DefaultScope
  ELSE IF truthy(values[1]) THEN values[1]
  ELSE firstNonEmpty(Tail(values))

\* a scopes_supported array as a scope string
AsScope(array) == IF array = Absent THEN Absent ELSE Str(join(array.list))

\* C14 (as claimed): the effective scope is the first non-empty of the static
\* scope, the scope of the registration response, the protected resource's
\* scopes_supported, the authorization server's scopes_supported, and else
\* the default; it is never empty.
C14_ScopePriority ==
  result # NoResult =>
    /\ truthy(result.value)
    /\ result.value =
         firstNonEmpty(<<args.staticScope,
                         IF args.clientInfo = Absent THEN Absent ELSE args.clientInfo.scope,
                         AsScope(args.protectedResourceScopes),
                         AsScope(args.authorizationServerScopes)>>)

\* ------------------------------------------------------------------------
\* connectToRemoteServer: the insecure flag, the retries (SpecConnect)
\* ------------------------------------------------------------------------

\* reasons for a recursive retry
REASON_AUTH_NEEDED == "authentication-needed"
REASON_TRANSPORT_FALLBACK == "falling-back-to-alternate-transport"
Reasons == {REASON_AUTH_NEEDED, REASON_TRANSPORT_FALLBACK}

\* values of NODE_TLS_REJECT_UNAUTHORIZED that mandate certificate validation
Strict == {"1", "true"}
EnvValues == {Unset, "0", "1", "true"}

\* How a call ends: a transport is returned, an error is thrown (the terminal
\* "Giving up" one or the attempt's own), or the process exits with a code
\* after reporting the error.
Connected == [returned |-> "transport"]
Threw(message) == [threw |-> message]
Exited(code) == [exit |-> code]

\* the other transport variant
alternate(t) == IF t = "http" THEN "sse" ELSE "http"

\* a token response: the access token and its type, no expiry
OAuthTokens(at) == [access_token |-> at, token_type |-> "Bearer"]

\* Mutant of saveTokens: the tokens are not written.
saveTokens_NotWritten(file, t) == file

\* saveTokens: tokens.json is replaced by the tokens.
saveTokens(file, t) == t

\* tokens(): the content of tokens.json when it parses as OAuthTokens, else
\* undefined.
tokens(file) ==
  IF file # NoFile /\ {"access_token", "token_type"} \subseteq DOMAIN file
    THEN Returned(file) ELSE Returned(undefined)

\* the variant a strategy tries first
preferred(strategy) == IF strategy = "http-first" THEN "http" ELSE "sse"

\* a call with any strategy, insecure or not, any value of the variable, and
\* any set of reasons handed in by the caller
InitConnect ==
  /\ RefreshIdle /\ ScanIdle /\ AuthIdle /\ CalcIdle /\ DiscIdle /\ MoreIdle
  /\ conn \in [insecure : BOOLEAN, strategy : {"http-first", "sse-first"}, env : EnvValues]
  /\ env = conn.env
  /\ cpc = "enter"
  /\ saved = <<>>
  /\ reasons \in SUBSET Reasons
  /\ attempts = 0
  /\ transport = preferred(conn.strategy)
  /\ response = "none"
  /\ skipBrowserAuth = FALSE
  /\ authLog = <<>>
  /\ authRequests = <<>>
  /\ tokensJson \in {NoFile, OAuthTokens("old")}
  /\ outcome = NoResult

\* Mutant of insecureConflict: only the value '1' counts as a mandate.
insecureConflict_OnlyOne(insecure, value) == insecure /\ value = "1"

\* insecure is asked for while the environment mandates certificate validation
insecureConflict(insecure, value) == insecure /\ value \in Strict

\* A call frame is entered: on a conflict the error is reported and the process
\* exits with code 1; otherwise, with insecure, the variable is remembered and
\* set to '0' for the duration of the frame.
EnterConnect ==
  /\ cpc = "enter"
  /\ IF insecureConflict(conn.insecure, env)
       THEN /\ cpc' = "exited"
            /\ outcome' = Exited(1)
            /\ UNCHANGED <<env, saved>>
       ELSE /\ cpc' = "attempt"
            /\ saved' = Append(saved, env)
            /\ env' = IF conn.insecure THEN "0" ELSE env
            /\ UNCHANGED outcome
  /\ UNCHANGED <<conn, reasons, attempts, transport, response, skipBrowserAuth, authLog,
               authRequests, tokensJson, notConn>>

\* Mutant of retry: the reason is not recorded.
retry_NotRecorded(attempted, reason) ==
  [giveUp |-> reason \in attempted, reasons |-> attempted]

\* A failure of class reason with the reasons attempted so far: give up when
\* the reason recurs, else record it and retry.
retry(attempted, reason) ==
  [giveUp |-> reason \in attempted, reasons |-> attempted \cup {reason}]

\* Mutant of retryTransport: an authorization challenge moves to the other
\* variant.
retryTransport_AlwaysAlternate(reason, t) == alternate(t)

\* the variant of the retry: the other one after an unsupported transport, the
\* same one after an authorization challenge
retryTransport(reason, t) ==
  IF reason = REASON_TRANSPORT_FALLBACK THEN alternate(t) ELSE t

\* The retry decision after a failure of class reason: the terminal error when
\* the reason recurs, else the recursive call.
Retry(reason) ==
  LET r == retry(reasons, reason) IN
    IF r.giveUp
      THEN /\ cpc' = "unwind"
           /\ outcome' = Threw("Giving up")
           /\ UNCHANGED <<reasons, transport>>
      ELSE /\ cpc' = "enter"
           /\ reasons' = r.reasons
           /\ transport' = retryTransport(reason, transport)
           /\ UNCHANGED outcome

\* Mutant of classify: every error counts as an unsupported transport.
classify_AllUnsupported(resp) ==
  IF resp = "error" THEN REASON_TRANSPORT_FALLBACK ELSE resp

\* the class of a failed attempt
classify(resp) == resp

\* One connection attempt and the server's response: connected; an
\* authorization challenge, handled in the steps below; an unsupported
\* transport, after which the other variant is tried; any other error, which is
\* thrown.
AttemptConnect ==
  /\ cpc = "attempt"
  /\ attempts' = attempts + 1
  /\ response' \in {"connected", "error"} \cup Reasons
  /\ authLog' = <<>>
  /\ LET class == classify(response') IN
       IF class = "connected"
         THEN cpc' = "unwind" /\ outcome' = Connected /\ UNCHANGED <<reasons, transport>>
       ELSE IF class = REASON_AUTH_NEEDED
         THEN cpc' = "authInitializer" /\ UNCHANGED <<reasons, transport, outcome>>
       ELSE IF class = REASON_TRANSPORT_FALLBACK
         THEN Retry(class)
       ELSE cpc' = "unwind" /\ outcome' = Threw("error") /\ UNCHANGED <<reasons, transport>>
  /\ UNCHANGED <<conn, env, saved, skipBrowserAuth, authRequests, tokensJson, notConn>>

\* after authInitializer: the authorization code is awaited unless the
\* authorization was completed by another process
afterAuthInitializer(skip) == IF skip THEN "retry" ELSE "waitForAuthCode"

\* The challenge is handed to authInitializer, which returns whether another
\* process has completed the authorization.
AuthInitializer ==
  /\ cpc = "authInitializer"
  /\ skipBrowserAuth' \in BOOLEAN
  /\ authLog' = Append(authLog, "authInitializer")
  /\ cpc' = afterAuthInitializer(skipBrowserAuth')
  /\ UNCHANGED <<conn, env, saved, reasons, attempts, transport, response, authRequests,
                 tokensJson, outcome, notConn>>

\* The authorization code arrives.
WaitForAuthCode ==
  /\ cpc = "waitForAuthCode"
  /\ authLog' = Append(authLog, "waitForAuthCode")
  /\ cpc' = "finishAuth"
  /\ UNCHANGED <<conn, env, saved, reasons, attempts, transport, response, skipBrowserAuth,
                 authRequests, tokensJson, outcome, notConn>>

\* finishAuth(code) starts: the protected-resource metadata is fetched from the
\* resource_metadata URL of the challenge's WWW-Authenticate header.
FinishAuth ==
  /\ cpc = "finishAuth"
  /\ authLog' = Append(authLog, "finishAuth")
  /\ authRequests' = Append(authRequests, "resource_metadata")
  /\ \/ cpc' = "issuerMetadata" /\ UNCHANGED outcome
     \/ cpc' = "unwind" /\ outcome' = Threw("error")
  /\ UNCHANGED <<conn, env, saved, reasons, attempts, transport, response, skipBrowserAuth,
                 tokensJson, notConn>>

\* The metadata of the issuer listed in authorization_servers is fetched.
FetchIssuerMetadata ==
  /\ cpc = "issuerMetadata"
  /\ authRequests' = Append(authRequests, "issuer_metadata")
  /\ \/ cpc' = "exchange" /\ UNCHANGED outcome
     \/ cpc' = "unwind" /\ outcome' = Threw("error")
  /\ UNCHANGED <<conn, env, saved, reasons, attempts, transport, response, skipBrowserAuth,
                 authLog, tokensJson, notConn>>

\* The code is exchanged at the issuer's token endpoint; the tokens of a
\* successful exchange are saved.
ExchangeAuthorization ==
  /\ cpc = "exchange"
  /\ \/ /\ authRequests' = Append(authRequests, "token:ok")
        /\ tokensJson' = saveTokens(tokensJson, OAuthTokens("new"))
        /\ cpc' = "retry"
        /\ UNCHANGED outcome
     \/ /\ authRequests' = Append(authRequests, "token:failed")
        /\ cpc' = "unwind" /\ outcome' = Threw("error")
        /\ UNCHANGED tokensJson
  /\ UNCHANGED <<conn, env, saved, reasons, attempts, transport, response, skipBrowserAuth,
                 authLog, notConn>>

\* With the authorization complete, the challenged attempt is retried, unless
\* a challenge was retried before.
RetryAfterAuth ==
  /\ cpc = "retry"
  /\ Retry(REASON_AUTH_NEEDED)
  /\ UNCHANGED <<conn, env, saved, attempts, response, skipBrowserAuth, authLog, authRequests,
                 tokensJson, notConn>>

\* Mutant of restoreEnv: a variable that was unset is left as it is.
restoreEnv_UnsetLeft(insecure, current, original) ==
  IF insecure /\ original # Unset THEN original ELSE current

\* On leaving a frame, with insecure: the variable gets its remembered value
\* back, and is deleted when it was unset.
restoreEnv(insecure, current, original) ==
  IF insecure THEN original ELSE current

\* A frame is left, by return or by throw; the outermost one ends the call.
LeaveConnect ==
  /\ cpc = "unwind"
  /\ env' = restoreEnv(conn.insecure, env, saved[Len(saved)])
  /\ saved' = SubSeq(saved, 1, Len(saved) - 1)
  /\ cpc' = IF Len(saved) = 1 THEN "ended" ELSE "unwind"
  /\ UNCHANGED <<conn, reasons, attempts, transport, response, skipBrowserAuth, authLog,
               authRequests, tokensJson, outcome, notConn>>

NextConnect ==
  \/ EnterConnect
  \/ AttemptConnect
  \/ AuthInitializer
  \/ WaitForAuthCode
  \/ FinishAuth
  \/ FetchIssuerMetadata
  \/ ExchangeAuthorization
  \/ RetryAfterAuth
  \/ LeaveConnect

SpecConnect == InitConnect /\ [][NextConnect]_vars

\* the call is one the conflict check rejects
Conflicting == conn.insecure /\ conn.env \in Strict

\* C18: a call with insecure = true while NODE_TLS_REJECT_UNAUTHORIZED is '1'
\* or 'true' ends with the process exiting non-zero, before any connection
\* attempt and with the variable unchanged.
C18_ConflictIsFatal ==
  (Conflicting /\ cpc # "enter") =>
    /\ cpc = "exited"
    /\ outcome \in {Exited(code) : code \in 1..255}
    /\ attempts = 0
    /\ env = conn.env

\* C18 witness: a call with insecure = true and the variable 'true' has exited.
C18_Witness == conn # NoArgs /\ conn.insecure /\ conn.env = "true" /\ cpc = "exited"

\* C19: a call without a conflict leaves NODE_TLS_REJECT_UNAUTHORIZED, once it
\* has returned or thrown, at the value it had before the call (unset stays
\* unset), and with insecure = false never changes it during the call.
C19_EnvRestored ==
  (conn # NoArgs /\ ~Conflicting) =>
    /\ cpc = "ended" => env = conn.env
    /\ ~conn.insecure => env = conn.env

\* C19 witness: an insecure call on an unset variable has ended after a
\* recursive retry, and the variable is unset again.
C19_Witness ==
  /\ conn # NoArgs /\ conn.insecure /\ conn.env = Unset
  /\ cpc = "ended" /\ attempts >= 2 /\ env = Unset

\* C20: a call makes boundedly many attempts: a retry always adds a reason not
\* yet attempted, and a failure whose reason is already attempted ends in the
\* terminal "Giving up" error and starts no retry.
C20_BoundedRetries ==
  [][/\ attempts' <= Cardinality(Reasons) + 1
     /\ (cpc # "enter" /\ cpc' = "enter") =>
          /\ response' \in Reasons \ reasons
          /\ reasons' = reasons \cup {response'}
     /\ (response' \in reasons /\ cpc \in {"attempt", "retry"}) =>
          /\ cpc' # "enter"
          /\ reasons' = reasons
          /\ cpc' = "unwind" => outcome' = Threw("Giving up")]_vars

\* C20 witness: a call that started with no reason attempted has given up on
\* its third attempt.
C20_Witness ==
  outcome = Threw("Giving up") /\ attempts = 3 /\ cpc = "ended" /\ reasons = Reasons

\* the steps an authorization challenge takes before the retry
AuthSteps(skip) ==
  IF skip THEN <<"authInitializer">>
  ELSE <<"authInitializer", "waitForAuthCode", "finishAuth">>

\* C21: an attempt that fails with an authorization challenge is followed by
\* authInitializer, then by the wait for the authorization code and its
\* exchange unless skipBrowserAuth is true, and then the retry uses the
\* transport variant that was challenged.
C21_AuthThenSameTransport ==
  [][/\ (attempts' = attempts + 1 /\ response' = REASON_AUTH_NEEDED) =>
          cpc' = "authInitializer" /\ authLog' = <<>>
     /\ cpc = "retry" => authLog = AuthSteps(skipBrowserAuth)
     /\ (cpc = "retry" /\ cpc' = "enter") => transport' = transport]_vars

\* C21 witness: the first attempt was challenged, the code awaited and
\* exchanged, and the second attempt is about to be made on the same variant.
C21_Witness ==
  /\ cpc = "attempt" /\ attempts = 1 /\ response = REASON_AUTH_NEEDED
  /\ authLog = AuthSteps(FALSE) /\ ~skipBrowserAuth
  /\ transport = preferred(conn.strategy)

\* C22: the variant changes only on a failure classified as unsupported
\* transport, to the other variant, and only when no such failure was retried
\* before: so at most once, and never back.
C22_FallbackOnce ==
  [][/\ transport' # transport =>
          /\ response' = REASON_TRANSPORT_FALLBACK
          /\ REASON_TRANSPORT_FALLBACK \notin reasons
          /\ REASON_TRANSPORT_FALLBACK \in reasons'
     /\ REASON_TRANSPORT_FALLBACK \in reasons => transport' = transport
     /\ (attempts' = attempts + 1 /\ response' = REASON_TRANSPORT_FALLBACK
           /\ REASON_TRANSPORT_FALLBACK \notin reasons) =>
          transport' = alternate(transport) /\ cpc' = "enter"
     /\ transport' # preferred(conn.strategy) => REASON_TRANSPORT_FALLBACK \in reasons']_vars

\* C22 witness: a call has ended on the variant that was not preferred, after
\* the fallback and a later failure of another class.
C22_Witness ==
  /\ cpc = "ended" /\ transport # preferred(conn.strategy)
  /\ attempts = 3 /\ outcome = Threw("error")

\* an authorization code has been exchanged during the call
Exchanged == \E i \in DOMAIN authRequests : authRequests[i] = "token:ok"

\* C23: while the authorization of a challenge is finished, the requests go to
\* the resource_metadata URL of the header, then to the issuer's metadata, then
\* to the issuer's token endpoint; from a successful exchange on tokens()
\* returns the new access token, also when the call has ended with "Giving up".
C23_TokensPersisted ==
  /\ \A i \in DOMAIN authRequests :
       LET before == IF i = 1 THEN "none" ELSE authRequests[i - 1] IN
         /\ authRequests[i] = "resource_metadata" => before \in {"none", "token:ok"}
         /\ authRequests[i] = "issuer_metadata" => before = "resource_metadata"
         /\ authRequests[i] \in {"token:ok", "token:failed"} => before = "issuer_metadata"
  /\ cpc = "retry" /\ ~skipBrowserAuth => Exchanged
  /\ Exchanged => tokens(tokensJson) = Returned(OAuthTokens("new"))

\* C23 witness: the call has given up after a successful exchange.
C23_Witness ==
  /\ cpc = "ended" /\ outcome = Threw("Giving up")
  /\ Exchanged /\ attempts = 1

\* ------------------------------------------------------------------------
\* The files of the config directory: readJsonFile, writeJsonFile,
\* readTextFile, writeTextFile, ensureConfigDir and the migration (SpecStore)
\* ------------------------------------------------------------------------

\* operations per task
MaxOps == 1
\* files created by other processes
MaxOther == 1
\* write calls a document takes at most
DocLen == 2

Tasks == {"t1", "t2"}

\* the files of one server, in the order readdir lists them
Files == <<"code_verifier.txt", "tokens.json">>
FileSet == {Files[i] : i \in DOMAIN Files}

\* the version-agnostic directory and the per-version ones, the latter sorted
\* descending as the migration visits them
targetDir == "mcp-remote"
versionDirs == <<"mcp-remote-2", "mcp-remote-1">>
Dirs == {targetDir} \cup {versionDirs[i] : i \in DOMAIN versionDirs}

\* getConfigDir: the directory of the running version in version-pinned mode
getConfigDir(pinned) == IF pinned THEN versionDirs[1] ELSE targetDir

\* a file that exists, with its content
File(content) == [content |-> content]

\* A complete document: the pieces a writer hands to the file system, in order.
Doc(d) == [i \in 1..DocLen |-> [doc |-> d, part |-> i]]

\* what a gap in a file reads as
Hole == [doc |-> "none", part |-> 0]

\* write(fd, piece) at offset off of a file with the given content
pwrite(content, off, piece) ==
  LET n == IF off > Len(content) THEN off ELSE Len(content) IN
    [i \in 1..n |-> IF i = off THEN piece
                    ELSE IF i <= Len(content) THEN content[i] ELSE Hole]

\* JSON.parse and schema.parseAsync: the document of a complete content; a
\* content that is not a complete document throws.
IsDocument(content) ==
  \E d \in {"t1", "t2", "old", "legacy1", "legacy2", "other"} : content = Doc(d)

\* readTextFile: the content; any failure, a missing file included, is thrown
\* as an Error with the caller's message.
readTextFile(file) ==
  IF file = NoFile THEN Threw("No code verifier saved for session")
  ELSE Returned(file)

\* readJsonFile: the parsed document; undefined for a missing file and for
\* any other failure.
readJsonFile(file) ==
  IF file # NoFile /\ IsDocument(file.content) THEN Returned(file)
  ELSE Returned(undefined)

\* the read function used for a file
readFile(name, file) ==
  IF name = "code_verifier.txt" THEN readTextFile(file) ELSE readJsonFile(file)

IdleTask == [pc |-> "idle", op |-> "none", file |-> "none", off |-> 0, d |-> 0, f |-> 0,
             observed |-> NoResult, result |-> NoResult, ops |-> 0]

\* the directories hold any mix of files; the flag is as the module sets it
InitStore ==
  /\ RefreshIdle /\ ScanIdle /\ AuthIdle /\ CalcIdle /\ DiscIdle /\ ConnIdle /\ ProvIdle /\ RunIdle
  /\ PkceIdle
  /\ versioned \in BOOLEAN
  /\ \E target \in [FileSet -> {NoFile, File(Doc("old"))}],
        legacy1 \in [FileSet -> {NoFile, File(Doc("legacy1"))}] :
       disk = [dir \in Dirs |->
                 IF dir = targetDir THEN target
                 ELSE IF dir = versionDirs[1] THEN legacy1
                 ELSE [file \in FileSet |-> File(Doc("legacy2"))]]
  /\ migrationRun = FALSE
  /\ migrateCalls = 0
  /\ task = [t \in Tasks |-> IdleTask]
  /\ others = 0

\* A task calls one of the four file functions.
BeginOp(t) ==
  /\ task[t].pc = "idle"
  /\ task[t].ops < MaxOps
  /\ \E op \in {"read", "write"}, file \in FileSet :
       task' = [task EXCEPT ![t] = [IdleTask EXCEPT !.pc = "ensureConfigDir", !.op = op,
                                      !.file = file, !.ops = task[t].ops + 1]]
  /\ UNCHANGED <<versioned, disk, migrationRun, migrateCalls, others, notStore>>

\* Mutant of shouldMigrate: the flag is not consulted.
shouldMigrate_Always(flag) == TRUE

\* ensureConfigDir: the migration runs when the flag is not set
shouldMigrate(flag) == ~flag

\* where a task continues after ensureConfigDir
io(t) == IF task[t].op = "read" THEN "readFile" ELSE "open"

\* the next file of the migration's loops after file f of directory d, or
\* <<0, 0>> at the end
advance(d, f) ==
  IF f < Len(Files) THEN <<d, f + 1>>
  ELSE IF d < Len(versionDirs) THEN <<d + 1, 1>>
  ELSE <<0, 0>>

\* the task's record at the next file of the migration, or back in its
\* operation at the end
Advanced(t) ==
  LET next == advance(task[t].d, task[t].f) IN
    IF next = <<0, 0>>
      THEN [task[t] EXCEPT !.pc = io(t), !.d = 0, !.f = 0]
      ELSE [task[t] EXCEPT !.pc = "access", !.d = next[1], !.f = next[2]]

\* ensureConfigDir after its mkdir: the flag is tested and set in one step, and
\* the migration is called, which returns at once in version-pinned mode.
EnsureConfigDir(t) ==
  /\ task[t].pc = "ensureConfigDir"
  /\ IF shouldMigrate(migrationRun)
       THEN /\ migrationRun' = TRUE
            /\ migrateCalls' = migrateCalls + 1
            /\ task' = [task EXCEPT ![t] =
                 IF versioned THEN [@ EXCEPT !.pc = io(t)]
                 ELSE [@ EXCEPT !.pc = "access", !.d = 1, !.f = 1]]
       ELSE /\ task' = [task EXCEPT ![t].pc = io(t)]
            /\ UNCHANGED <<migrationRun, migrateCalls>>
  /\ UNCHANGED <<versioned, disk, others, notStore>>

\* fs.access(destPath) for the current file of the current legacy directory:
\* the file is skipped when the destination exists.
MigrateAccess(t) ==
  /\ task[t].pc = "access"
  /\ LET file == Files[task[t].f]
         dir == versionDirs[task[t].d] IN
       task' = [task EXCEPT ![t] =
         IF disk[dir][file] = NoFile \/ disk[targetDir][file] # NoFile
           THEN Advanced(t)
           ELSE [@ EXCEPT !.pc = "copyFile"]]
  /\ UNCHANGED <<versioned, disk, migrationRun, migrateCalls, others, notStore>>

\* fs.copyFile(srcPath, destPath): the destination becomes the source
copyFile(source, dest) == source

\* The file is copied; the next one is looked at.
MigrateCopy(t) ==
  /\ task[t].pc = "copyFile"
  /\ LET file == Files[task[t].f]
         dir == versionDirs[task[t].d] IN
       disk' = [disk EXCEPT ![targetDir][file] = copyFile(disk[dir][file], @)]
  /\ task' = [task EXCEPT ![t] = Advanced(t)]
  /\ UNCHANGED <<versioned, migrationRun, migrateCalls, others, notStore>>

\* fs.readFile in readJsonFile and readTextFile
ReadFile(t) ==
  /\ task[t].pc = "readFile"
  /\ LET content == disk[getConfigDir(versioned)][task[t].file] IN
       task' = [task EXCEPT ![t].pc = "done",
                            ![t].observed = content,
                            ![t].result = readFile(task[t].file, content)]
  /\ UNCHANGED <<versioned, disk, migrationRun, migrateCalls, others, notStore>>

\* fs.writeFile opens the file with flag 'w': created if missing, truncated if
\* not
open(file) == File(<<>>)

\* The file is opened for the write.
OpenFile(t) ==
  /\ task[t].pc = "open"
  /\ disk' = [disk EXCEPT ![getConfigDir(versioned)][task[t].file] = open(@)]
  /\ task' = [task EXCEPT ![t].pc = "write", ![t].off = 1]
  /\ UNCHANGED <<versioned, migrationRun, migrateCalls, others, notStore>>

\* fs.writeFile writes the document, in one write or piece by piece.
WriteFile(t) ==
  /\ task[t].pc = "write"
  /\ LET file == task[t].file
         dir == getConfigDir(versioned)
         written[n \in 0..DocLen] ==
           IF n < task[t].off
             THEN IF disk[dir][file] = NoFile THEN <<>> ELSE disk[dir][file].content
             ELSE pwrite(written[n - 1], n, Doc(t)[n]) IN
       \E last \in task[t].off..DocLen :
         /\ disk' = [disk EXCEPT ![dir][file] = File(written[last])]
         /\ task' = [task EXCEPT ![t].off = last + 1,
                                 ![t].pc = IF last = DocLen THEN "done" ELSE "write"]
  /\ UNCHANGED <<versioned, migrationRun, migrateCalls, others, notStore>>

\* The function returns or throws; its result stays until the next call.
ReturnOp(t) ==
  /\ task[t].pc = "done"
  /\ task' = [task EXCEPT ![t].pc = "idle"]
  /\ UNCHANGED <<versioned, disk, migrationRun, migrateCalls, others, notStore>>

\* Another process creates a file of the version-agnostic directory.
OtherCreate ==
  /\ others < MaxOther
  /\ others' = others + 1
  /\ \E file \in FileSet :
       /\ disk[targetDir][file] = NoFile
       /\ disk' = [disk EXCEPT ![targetDir][file] = File(Doc("other"))]
  /\ UNCHANGED <<versioned, migrationRun, migrateCalls, task, notStore>>

NextStore ==
  \/ \E t \in Tasks : BeginOp(t)
  \/ \E t \in Tasks : EnsureConfigDir(t)
  \/ \E t \in Tasks : MigrateAccess(t)
  \/ \E t \in Tasks : MigrateCopy(t)
  \/ \E t \in Tasks : ReadFile(t)
  \/ \E t \in Tasks : OpenFile(t)
  \/ \E t \in Tasks : WriteFile(t)
  \/ \E t \in Tasks : ReturnOp(t)
  \/ OtherCreate

SpecStore == InitStore /\ [][NextStore]_vars

\* task t has read a file
HasRead(t) == task[t].op = "read" /\ task[t].pc \in {"done", "idle"}

\* C24: a read that runs while the file is written sees a complete document
\* (or no file, when there was none), never an empty or partly written file.
C24_CompleteDocuments ==
  \A t \in Tasks :
    HasRead(t) => task[t].observed = NoFile \/ IsDocument(task[t].observed.content)

\* C25: a read of a file that does not exist returns undefined and does not
\* throw.
C25_AbsentNotError ==
  \A t \in Tasks :
    (HasRead(t) /\ task[t].observed = NoFile) => task[t].result = Returned(undefined)

\* task t takes a step of the migration
MigrationStep(t) == task[t].pc \in {"access", "copyFile"} /\ task'[t] # task[t]

\* C26: no step of the migration changes a file that exists in the
\* version-agnostic directory, whoever created it, nor any file of the
\* per-version directories.
C26_MigrationKeepsFiles ==
  [][\A t \in Tasks : MigrationStep(t) =>
       /\ \A file \in FileSet :
            disk[targetDir][file] # NoFile => disk'[targetDir][file] = disk[targetDir][file]
       /\ \A i \in DOMAIN versionDirs : disk'[versionDirs[i]] = disk[versionDirs[i]]]_vars

\* C27: migrateFromVersionedDirs is called at most once in the process, and in
\* version-pinned mode no task ever takes a step of the migration.
C27_MigrationOnce ==
  /\ migrateCalls <= 1
  /\ versioned => \A t \in Tasks : task[t].pc \notin {"access", "copyFile"}

\* C27 witness: both tasks have finished an operation, one of them after the
\* migration, which copied a file.
C27_Witness ==
  /\ ~versioned /\ migrateCalls = 1
  /\ \A t \in Tasks : task[t].pc = "idle" /\ task[t].ops >= 1
  /\ \E file \in FileSet : disk[targetDir][file] = File(Doc("legacy1"))

\* some legacy directory holds the file
InLegacyDir(file) == \E i \in DOMAIN versionDirs : disk[versionDirs[i]][file] # NoFile

\* C39 (as claimed): in version-agnostic mode no read reports a file absent
\* that a legacy directory holds: the read comes after the migration has
\* copied it, whichever task ran the migration.
C39_ReadsAfterMigration ==
  \A t \in Tasks :
    (~versioned /\ HasRead(t) /\ task[t].observed = NoFile) => ~InLegacyDir(task[t].file)

\* ------------------------------------------------------------------------
\* NodeOAuthClientProvider: the records of a server and invalidateCredentials
\* (SpecInvalidate)
\* ------------------------------------------------------------------------

\* calls made on the provider
MaxCalls == 3

RecordFiles == {"client_info.json", "tokens.json", "code_verifier.txt", "scopes.json"}

\* the client information given by configuration
StaticClientInfo == [client_id |-> "static"]

\* registration responses
Registrations == {[client_id |-> "registered", scope |-> Str("registered"),
                   default_scope |-> Absent, scopes |-> Absent, default_scopes |-> Absent],
                  [client_id |-> "registered", scope |-> Absent,
                   default_scope |-> Absent, scopes |-> Absent, default_scopes |-> Absent]}

\* a provider with or without static scope and static client information, and
\* no record stored
InitInvalidate ==
  /\ RefreshIdle /\ ScanIdle /\ AuthIdle /\ CalcIdle /\ DiscIdle /\ ConnIdle /\ StoreIdle /\ RunIdle
  /\ PkceIdle
  /\ provider \in [staticScope : {Absent, Str("static")},
                   staticOAuthClientInfo : {Absent, StaticClientInfo},
                   scopes : {Absent}]
  /\ records = [file \in RecordFiles |-> NoFile]
  /\ lastCall = NoArgs
  /\ calls = 0

\* a call of method fn with argument arg is made
Called(fn, arg) ==
  /\ calls < MaxCalls
  /\ calls' = calls + 1
  /\ lastCall' = [fn |-> fn, arg |-> arg]

\* saveClientInformation(clientInformation): without a static scope the
\* scopes of the registration are kept in this._scopes and in scopes.json
SaveRegistration ==
  \E info \in Registrations :
    /\ Called("saveClientInformation", info.scope)
    /\ IF truthy(provider.staticScope)
         THEN /\ records' = [records EXCEPT !["client_info.json"] = info]
              /\ UNCHANGED provider
         ELSE LET scopes == extractScopesFromRegistration(info) IN
                /\ provider' = [provider EXCEPT !.scopes = scopes]
                /\ records' = [records EXCEPT !["client_info.json"] = info,
                                              !["scopes.json"] = [scopes |-> scopes]]
    /\ UNCHANGED notProv

\* clientInformation(): the static client information if there is one, else
\* what client_info.json holds
clientInformation(p, files) ==
  IF p.staticOAuthClientInfo # Absent THEN p.staticOAuthClientInfo
  ELSE IF files["client_info.json"] = NoFile THEN Absent
  ELSE files["client_info.json"]

\* clientInformation() also loads this._scopes from scopes.json when there is
\* a stored registration and no static scope.
ClientInformation ==
  /\ Called("clientInformation", Absent)
  /\ provider' =
       IF /\ provider.staticOAuthClientInfo = Absent
          /\ records["client_info.json"] # NoFile
          /\ ~truthy(provider.staticScope)
          /\ records["scopes.json"] # NoFile
          /\ truthy(records["scopes.json"].scopes)
         THEN [provider EXCEPT !.scopes = records["scopes.json"].scopes]
         ELSE provider
  /\ UNCHANGED <<records, notProv>>

\* saveTokens(tokens)
StoreTokens ==
  /\ Called("saveTokens", Absent)
  /\ records' = [records EXCEPT !["tokens.json"] = saveTokens(@, OAuthTokens("new"))]
  /\ UNCHANGED <<provider, notProv>>

\* saveCodeVerifier(codeVerifier)
SaveCodeVerifier ==
  /\ Called("saveCodeVerifier", Absent)
  /\ records' = [records EXCEPT !["code_verifier.txt"] = Str("verifier")]
  /\ UNCHANGED <<provider, notProv>>

\* Mutant of invalidated: 'tokens' deletes the verifier as well.
invalidated_TokensAndVerifier(scope) ==
  IF scope = "all" THEN {"client_info.json", "tokens.json", "code_verifier.txt", "scopes.json"}
  ELSE IF scope = "client" THEN {"client_info.json", "scopes.json"}
  ELSE IF scope = "tokens" THEN {"tokens.json", "code_verifier.txt"}
  ELSE {"code_verifier.txt"}

\* the files invalidateCredentials(scope) deletes
invalidated(scope) ==
  IF scope = "all" THEN {"client_info.json", "tokens.json", "code_verifier.txt", "scopes.json"}
  ELSE IF scope = "client" THEN {"client_info.json", "scopes.json"}
  ELSE IF scope = "tokens" THEN {"tokens.json"}
  ELSE {"code_verifier.txt"}

\* invalidateCredentials(scope): the files are deleted; 'all' and 'client'
\* clear this._scopes
InvalidateCredentials ==
  \E scope \in {"all", "client", "tokens", "verifier"} :
    /\ Called("invalidateCredentials", scope)
    /\ records' = [file \in RecordFiles |->
                     IF file \in invalidated(scope) THEN NoFile ELSE records[file]]
    /\ provider' = IF scope \in {"all", "client"}
                     THEN [provider EXCEPT !.scopes = Absent] ELSE provider
    /\ UNCHANGED notProv

NextInvalidate ==
  \/ SaveRegistration
  \/ ClientInformation
  \/ StoreTokens
  \/ SaveCodeVerifier
  \/ InvalidateCredentials

SpecInvalidate == InitInvalidate /\ [][NextInvalidate]_vars

\* the step is invalidateCredentials(scope)
Invalidates(scope) ==
  calls' = calls + 1 /\ lastCall' = [fn |-> "invalidateCredentials", arg |-> scope]

\* the records other than the named ones are as before the step
OnlyRemoved(files) ==
  \A file \in RecordFiles :
    records'[file] = IF file \in files THEN NoFile ELSE records[file]

ProcessExit(code, path) == [code |-> code, path |-> path]

\* if (server) server.close()
closeServer(s) == IF s = "listening" THEN "closed" ELSE s

InitRun ==
  /\ RefreshIdle /\ ScanIdle /\ AuthIdle /\ CalcIdle /\ DiscIdle /\ ConnIdle
  /\ StoreIdle /\ ProvIdle /\ PkceIdle
  /\ program \in {"client", "proxy"}
  /\ rpc = "connect"
  /\ server = "null"
  /\ onclose = FALSE
  /\ handlers = FALSE
  /\ sent = <<>>
  /\ exit = NoResult

Running == exit = NoResult

\* authInitializer, called by connectToRemoteServer on a challenge:
\* server = authState.server, the callback server when initializeAuth()
\* created one.
RunAuthInitializer ==
  /\ Running /\ rpc = "connect" /\ server = "null"
  /\ server' \in {"null", "listening"}
  /\ rpc' = "connecting"
  /\ UNCHANGED <<program, onclose, handlers, sent, exit, notRun>>

\* connectToRemoteServer returns the transport. runClient sets the
\* transport's handlers and the signal handlers; runProxy goes on to start the
\* local transport.
ConnectReturns ==
  /\ Running /\ rpc \in {"connect", "connecting"}
  /\ IF program = "client"
       THEN onclose' = TRUE /\ handlers' = TRUE /\ rpc' = "tools/list"
       ELSE rpc' = "localTransport.start" /\ UNCHANGED <<onclose, handlers>>
  /\ UNCHANGED <<program, server, sent, exit, notRun>>

\* The catch block: the callback server is closed if there is one, and the
\* process exits with code 1.
Fatal == server' = closeServer(server) /\ exit' = ProcessExit(1, "fatal error")

\* connectToRemoteServer throws.
ConnectThrows ==
  /\ Running /\ rpc \in {"connect", "connecting"}
  /\ Fatal
  /\ rpc' = "exited"
  /\ UNCHANGED <<program, onclose, handlers, sent, notRun>>

\* runClient: a request is answered or fails; its error is logged.
ClientRequest ==
  /\ Running /\ program = "client" /\ rpc \in {"tools/list", "resources/list"}
  /\ \E ok \in BOOLEAN : sent' = Append(sent, ok)
  /\ rpc' = IF rpc = "tools/list" THEN "resources/list" ELSE "exiting"
  /\ UNCHANGED <<program, server, onclose, handlers, exit, notRun>>

\* runClient is done: the callback server is closed if there is one, and the
\* process exits with code 0.
ClientExit ==
  /\ Running /\ program = "client" /\ rpc = "exiting"
  /\ server' = closeServer(server)
  /\ exit' = ProcessExit(0, "completed")
  /\ rpc' = "exited"
  /\ UNCHANGED <<program, onclose, handlers, sent, notRun>>

\* runProxy: the local transport starts and the signal handlers are set, or
\* the start throws.
LocalTransportStart ==
  /\ Running /\ program = "proxy" /\ rpc = "localTransport.start"
  /\ \/ /\ handlers' = TRUE /\ rpc' = "proxying"
        /\ UNCHANGED <<server, exit>>
     \/ /\ Fatal /\ rpc' = "exited"
        /\ UNCHANGED handlers
  /\ UNCHANGED <<program, onclose, sent, notRun>>

\* The remote transport closes: runClient's transport.onclose logs and calls
\* process.exit(0).
TransportClose ==
  /\ Running /\ onclose
  /\ exit' = ProcessExit(0, "transport closed")
  /\ rpc' = "exited"
  /\ UNCHANGED <<program, server, onclose, handlers, sent, notRun>>

\* the run is inside cleanup
InCleanup ==
  rpc \in {"client.close", "remoteTransport.close", "localTransport.close", "server.close"}

\* A termination signal with the handlers set: cleanup begins.
SignalCleanup ==
  /\ Running /\ handlers /\ ~InCleanup
  /\ rpc' = IF program = "client" THEN "client.close" ELSE "remoteTransport.close"
  /\ UNCHANGED <<program, server, onclose, handlers, sent, exit, notRun>>

\* cleanup closes the connections: runClient the client, runProxy the remote
\* and then the local transport.
CleanupCloseConnection ==
  /\ Running /\ rpc \in {"client.close", "remoteTransport.close", "localTransport.close"}
  /\ rpc' = IF rpc = "remoteTransport.close" THEN "localTransport.close" ELSE "server.close"
  /\ UNCHANGED <<program, server, onclose, handlers, sent, exit, notRun>>

\* cleanup ends: the callback server is closed if there is one, and the
\* signal handler exits.
CleanupCloseServer ==
  /\ Running /\ rpc = "server.close"
  /\ server' = closeServer(server)
  /\ exit' = ProcessExit(0, "signal")
  /\ rpc' = "exited"
  /\ UNCHANGED <<program, onclose, handlers, sent, notRun>>

\* A termination signal before the handlers are set: the process ends by the
\* signal's default action.
SignalDefault ==
  /\ Running /\ ~handlers
  /\ exit' = ProcessExit(130, "signal, no handler")
  /\ rpc' = "exited"
  /\ UNCHANGED <<program, server, onclose, handlers, sent, notRun>>

NextRun ==
  \/ RunAuthInitializer
  \/ ConnectReturns
  \/ ConnectThrows
  \/ ClientRequest
  \/ ClientExit
  \/ LocalTransportStart
  \/ TransportClose
  \/ SignalCleanup
  \/ CleanupCloseConnection
  \/ CleanupCloseServer
  \/ SignalDefault

SpecRun == InitRun /\ [][NextRun]_vars

\* C30 (as claimed): when the process has exited, on whichever path, a
\* callback server that was created is closed.
C30_ListenerClosedOnExit == exit # NoResult => server # "listening"

\* ------------------------------------------------------------------------
\* The SSRF check on its own: isInternalIP over a range of hosts (SpecSsrf)
\* ------------------------------------------------------------------------

\* Octets tried: the borders of the blocked ranges and their neighbours.
FirstOctets == {8, 10, 127, 169, 172, 192}
SecondOctets == {0, 15, 16, 31, 32, 168, 254}
LastOctets == {1, 2}

\* Hosts of the URLs checked: names, IPv6 literals and dotted IPv4 addresses.
SsrfHosts ==
  {Name("example.com"), Name("localhost"), IPv6("::1"), IPv6("2001:db8::1")}
    \cup {IPv4(a, b, 0, d) : a \in FirstOctets, b \in SecondOctets, d \in LastOctets}

InitSsrf ==
  /\ RefreshIdle /\ ScanIdle /\ AuthIdle /\ DiscIdle /\ ConnIdle /\ MoreIdle
  /\ args \in [url : SsrfHosts]
  /\ result = NoResult

\* result = isInternalIP(url)
CallIsInternalIP ==
  /\ result = NoResult
  /\ "url" \in DOMAIN args
  /\ result' = Returned(isInternalIP(args.url))
  /\ UNCHANGED <<args, notCalc>>

NextSsrf == CallIsInternalIP

SpecSsrf == InitSsrf /\ [][NextSsrf]_vars

\* C36 (as claimed): the check blocks exactly localhost, ::1, 127/8, 10/8,
\* 172.16/12, 192.168/16 and 169.254/16, and lets every other host proceed.
C36_BlocksExactlyInternal ==
  result # NoResult => result = Returned(IsInternalTarget(args.url))

\* ------------------------------------------------------------------------
\* The bundle returned by discoverOAuthMetadata (under SpecDiscover)
\* ------------------------------------------------------------------------

\* discoverOAuthMetadata has returned its bundle.
BundleReturned ==
  call # NoArgs /\ call.fn = "discoverOAuthMetadata" /\ dpc = "done" /\ bundle # NoResult

\* A request of the stage was answered with a metadata body.
Obtained(stage) ==
  \E i \in DOMAIN requests : requests[i].stage = stage /\ requests[i].ok

\* The scopes a bundle of source protected-resource is to carry.
ScopesOf(p, a) ==
  IF p.scopes_supported # Absent /\ Len(p.scopes_supported.list) > 0 THEN p.scopes_supported
  ELSE IF a.scopes_supported # Absent /\ Len(a.scopes_supported.list) > 0 THEN a.scopes_supported
  ELSE Absent

\* What holds of the bundles of source protected-resource and
\* authorization-server.
BundleFields ==
  /\ bundle.discoverySource = "protected-resource"
       <=> (prm # NoMeta /\ Obtained("issuer"))
  /\ bundle.discoverySource = "protected-resource"
       => /\ bundle.protectedResourceMetadata = prm
          /\ bundle.authorizationServerMetadata # NoMeta
          /\ bundle.effectiveScopes = ScopesOf(prm, bundle.authorizationServerMetadata)
  /\ bundle.discoverySource = "authorization-server"
       <=> (Obtained("fallback") /\ ~Obtained("issuer"))
  /\ bundle.discoverySource = "authorization-server"
       => /\ bundle.protectedResourceMetadata = NoMeta
          /\ bundle.authorizationServerMetadata # NoMeta
  /\ bundle.discoverySource = "none"
       => /\ bundle.protectedResourceMetadata = NoMeta
          /\ bundle.authorizationServerMetadata = NoMeta
          /\ bundle.effectiveScopes = Absent

\* C35 (as claimed): the source is protected-resource exactly when the
\* protected-resource metadata and a listed issuer's metadata were obtained,
\* authorization-server exactly when only the fallback succeeded, and none
\* exactly when no metadata was obtained.
C35_SourceConsistent ==
  BundleReturned =>
    /\ BundleFields
    /\ bundle.discoverySource = "none"
         <=> (prm = NoMeta /\ ~Obtained("issuer") /\ ~Obtained("fallback"))

\* C35 (amended): as claimed for protected-resource and authorization-server;
\* the source is none exactly when no authorization-server metadata was
\* obtained, whether or not protected-resource metadata was.
C35_SourceConsistentAmended ==
  BundleReturned =>
    /\ BundleFields
    /\ bundle.discoverySource = "none"
         <=> (~Obtained("issuer") /\ ~Obtained("fallback"))

\* C35 witness: a bundle of source none was returned although the
\* protected-resource metadata had been obtained and had listed an issuer.
C35_Witness ==
  /\ BundleReturned /\ bundle.discoverySource = "none"
  /\ prm # NoMeta /\ Len(prm.authorization_servers) > 0


\* ------------------------------------------------------------------------
\* Repeated initializeAuth() calls of one process (successive connect
\* retries call authInitializer again)
\* ------------------------------------------------------------------------

\* authInitializer is called again by a process whose earlier call has
\* returned: authCoordinator.initializeAuth() starts over from the lockfile.
InitializeAuthAgain(p) ==
  /\ alive[p] /\ apc[p] \in {"authorized", "authFailed", "proceeded", "gaveUp"}
  /\ apc' = [apc EXCEPT ![p] = "start"]
  /\ UNCHANGED <<lockfile, seen, listener, settleAt>>
  /\ UNCHANGED <<now, tokensFile, alive, refreshOnly, scanVars, restVars>>

NextReentry ==
  \/ NextAuth
  \/ \E p \in Procs : InitializeAuthAgain(p)

SpecReentry == InitAuth /\ [][NextReentry]_vars

MaxFlows == 2

\* the verifier generated for the n-th flow of process p
Verifier(p, n) == [of |-> p, n |-> n]

\* writeTextFile(hash, 'code_verifier.txt', text): the file is written,
\* whatever it held
writeTextFile(file, text) == File(text)

\* The process starts an authorization flow: a fresh verifier is generated
\* and saveCodeVerifier(codeVerifier) writes it to the server's file.
saveCodeVerifier(p) ==
  /\ fpc[p] = "idle" /\ flows[p] < MaxFlows
  /\ flows' = [flows EXCEPT ![p] = @ + 1]
  /\ verifierFile' = writeTextFile(verifierFile, Verifier(p, flows[p] + 1))
  /\ fpc' = [fpc EXCEPT ![p] = "redirected"]
  /\ UNCHANGED exchanges
  /\ UNCHANGED notPkce

\* The redirect has brought the authorization code: codeVerifier() reads the
\* server's file (readTextFile throws when it is missing) and the code is
\* exchanged with what was read.
codeVerifier(p) ==
  /\ fpc[p] = "redirected"
  /\ LET verifier == readTextFile(verifierFile) IN
       IF verifier = Threw("No code verifier saved for session")
         THEN /\ fpc' = [fpc EXCEPT ![p] = "failed"]
              /\ UNCHANGED exchanges
         ELSE /\ fpc' = [fpc EXCEPT ![p] = "idle"]
              /\ exchanges' = exchanges \cup
                   {[flow |-> Verifier(p, flows[p]), verifier |-> verifier.value.content]}
  /\ UNCHANGED <<verifierFile, flows>>
  /\ UNCHANGED notPkce

InitPkce ==
  /\ RefreshIdle /\ ScanIdle /\ AuthIdle /\ CalcIdle /\ DiscIdle /\ ConnIdle
  /\ StoreIdle /\ ProvIdle /\ RunIdle
  /\ verifierFile = NoFile
  /\ fpc = [p \in Procs |-> "idle"]
  /\ flows = [p \in Procs |-> 0]
  /\ exchanges = {}

NextPkce ==
  \/ \E p \in Procs : saveCodeVerifier(p)
  \/ \E p \in Procs : codeVerifier(p)

SpecPkce == InitPkce /\ [][NextPkce]_vars

\* C40 (as claimed): every code exchange used the verifier saved at the
\* start of its own flow, and no saved verifier was used by two exchanges.
C40_VerifierOfSameFlow ==
  /\ \A e \in exchanges : e.verifier = e.flow
  /\ \A e, f \in exchanges : e.verifier = f.verifier => e = f

====
